---- MODULE Spec2Model ----
(***************************************************************************)
(* The Aadhaar data-cleaning pipeline of src/uidai/data_cleaning.py:       *)
(* standardize_state, clean_dataset and split_and_save, with the pandas    *)
(* and str operations they call computed character by character.           *)
(***************************************************************************)
EXTENDS Integers, Sequences, FiniteSets, TLC

(***************************************************************************)
(* Text.  A Python str is a TLA+ string; characters are its substrings of  *)
(* length one.  ord gives the code point of the characters the model uses, *)
(* which is what orders two texts in Python.                               *)
(***************************************************************************)
ord ==
    ("\t" :> 9) @@ (" " :> 32) @@ ("&" :> 38) @@ ("+" :> 43) @@ ("-" :> 45) @@ ("/" :> 47) @@
    ("0" :> 48) @@ ("1" :> 49) @@ ("2" :> 50) @@ ("3" :> 51) @@ ("4" :> 52) @@ ("5" :> 53) @@
    ("6" :> 54) @@ ("7" :> 55) @@ ("8" :> 56) @@ ("9" :> 57) @@ ("A" :> 65) @@ ("B" :> 66) @@
    ("C" :> 67) @@ ("D" :> 68) @@ ("E" :> 69) @@ ("F" :> 70) @@ ("G" :> 71) @@ ("H" :> 72) @@
    ("I" :> 73) @@ ("J" :> 74) @@ ("K" :> 75) @@ ("L" :> 76) @@ ("M" :> 77) @@ ("N" :> 78) @@
    ("O" :> 79) @@ ("P" :> 80) @@ ("Q" :> 81) @@ ("R" :> 82) @@ ("S" :> 83) @@ ("T" :> 84) @@
    ("U" :> 85) @@ ("V" :> 86) @@ ("W" :> 87) @@ ("X" :> 88) @@ ("Y" :> 89) @@ ("Z" :> 90) @@
    ("a" :> 97) @@ ("b" :> 98) @@ ("c" :> 99) @@ ("d" :> 100) @@ ("e" :> 101) @@ ("f" :> 102) @@
    ("g" :> 103) @@ ("h" :> 104) @@ ("i" :> 105) @@ ("j" :> 106) @@ ("k" :> 107) @@ ("l" :> 108) @@
    ("m" :> 109) @@ ("n" :> 110) @@ ("o" :> 111) @@ ("p" :> 112) @@ ("q" :> 113) @@ ("r" :> 114) @@
    ("s" :> 115) @@ ("t" :> 116) @@ ("u" :> 117) @@ ("v" :> 118) @@ ("w" :> 119) @@ ("x" :> 120) @@
    ("y" :> 121) @@ ("z" :> 122)

(* str.lower() and str.upper() of one character. *)
ToLower ==
    ("A" :> "a") @@ ("B" :> "b") @@ ("C" :> "c") @@ ("D" :> "d") @@ ("E" :> "e") @@ ("F" :> "f") @@
    ("G" :> "g") @@ ("H" :> "h") @@ ("I" :> "i") @@ ("J" :> "j") @@ ("K" :> "k") @@ ("L" :> "l") @@
    ("M" :> "m") @@ ("N" :> "n") @@ ("O" :> "o") @@ ("P" :> "p") @@ ("Q" :> "q") @@ ("R" :> "r") @@
    ("S" :> "s") @@ ("T" :> "t") @@ ("U" :> "u") @@ ("V" :> "v") @@ ("W" :> "w") @@ ("X" :> "x") @@
    ("Y" :> "y") @@ ("Z" :> "z")

ToUpper ==
    ("a" :> "A") @@ ("b" :> "B") @@ ("c" :> "C") @@ ("d" :> "D") @@ ("e" :> "E") @@ ("f" :> "F") @@
    ("g" :> "G") @@ ("h" :> "H") @@ ("i" :> "I") @@ ("j" :> "J") @@ ("k" :> "K") @@ ("l" :> "L") @@
    ("m" :> "M") @@ ("n" :> "N") @@ ("o" :> "O") @@ ("p" :> "P") @@ ("q" :> "Q") @@ ("r" :> "R") @@
    ("s" :> "S") @@ ("t" :> "T") @@ ("u" :> "U") @@ ("v" :> "V") @@ ("w" :> "W") @@ ("x" :> "X") @@
    ("y" :> "Y") @@ ("z" :> "Z")

LowerChar(c) == IF c \in DOMAIN ToLower THEN ToLower[c] ELSE c

UpperChar(c) == IF c \in DOMAIN ToUpper THEN ToUpper[c] ELSE c

Digits == "0123456789"

(* int() of a decimal digit, and the digit of a value 0..9. *)
DigitValue ==
    ("0" :> 0) @@ ("1" :> 1) @@ ("2" :> 2) @@ ("3" :> 3) @@ ("4" :> 4) @@ ("5" :> 5) @@
    ("6" :> 6) @@ ("7" :> 7) @@ ("8" :> 8) @@ ("9" :> 9)

Char(s, i) == SubSeq(s, i, i)

DigitChar(d) == Char(Digits, d + 1)

isspace(c) == c \in {" ", "\t"}

isdigit(c) == c \in DOMAIN DigitValue

iscased(c) == c \in DOMAIN ToLower \cup DOMAIN ToUpper

RECURSIVE lower(_)
lower(s) == IF s = "" THEN "" ELSE LowerChar(Head(s)) \o lower(Tail(s))

RECURSIVE upper(_)
upper(s) == IF s = "" THEN "" ELSE UpperChar(Head(s)) \o upper(Tail(s))

RECURSIVE lstrip(_)
lstrip(s) == IF s # "" /\ isspace(Head(s)) THEN lstrip(Tail(s)) ELSE s

RECURSIVE rstrip(_)
rstrip(s) == IF s # "" /\ isspace(Char(s, Len(s)))
             THEN rstrip(SubSeq(s, 1, Len(s) - 1)) ELSE s

strip(s) == rstrip(lstrip(s))

(* str.title(): a cased character is upper-cased when it follows an uncased *)
(* one (or starts the text) and lower-cased when it follows a cased one.    *)
RECURSIVE TitleFrom(_, _)
TitleFrom(s, prevCased) ==
    IF s = "" THEN ""
    ELSE LET c == Head(s)
         IN  (IF ~iscased(c) THEN c
              ELSE IF prevCased THEN LowerChar(c) ELSE UpperChar(c))
             \o TitleFrom(Tail(s), iscased(c))

title(s) == TitleFrom(s, FALSE)

(* Code-point order of two texts, as Python compares str. *)
RECURSIVE StrLess(_, _)
StrLess(a, b) ==
    IF b = "" THEN FALSE
    ELSE IF a = "" THEN TRUE
    ELSE IF Head(a) = Head(b) THEN StrLess(Tail(a), Tail(b))
    ELSE ord[Head(a)] < ord[Head(b)]

(* str(n) of an int. *)
RECURSIVE NatToStr(_)
NatToStr(n) == IF n < 10 THEN DigitChar(n)
               ELSE NatToStr(n \div 10) \o DigitChar(n % 10)

IntToStr(n) == IF n < 0 THEN "-" \o NatToStr(-n) ELSE NatToStr(n)

(* int(s) of a text of decimal digits. *)
RECURSIVE DigitsToNat(_)
DigitsToNat(s) == IF s = "" THEN 0
                  ELSE 10 * DigitsToNat(SubSeq(s, 1, Len(s) - 1))
                       + DigitValue[Char(s, Len(s))]

RECURSIVE Zeros(_)
Zeros(n) == IF n <= 0 THEN "" ELSE "0" \o Zeros(n - 1)

(* str.zfill(width): zeros go after a leading sign; never truncates. *)
zfill(s, width) ==
    IF Len(s) >= width THEN s
    ELSE IF s # "" /\ Head(s) \in {"+", "-"}
         THEN Head(s) \o Zeros(width - Len(s)) \o Tail(s)
         ELSE Zeros(width - Len(s)) \o s

(***************************************************************************)
(* Cells of a DataFrame: a text, an int, a float with a whole value, or    *)
(* NaN (a missing value).                                                  *)
(***************************************************************************)
Str(s) == [t |-> "str", s |-> s, n |-> 0]

Int64(n) == [t |-> "int", s |-> "", n |-> n]

Float64(n) == [t |-> "float", s |-> "", n |-> n]

NaN == [t |-> "nan", s |-> "", n |-> 0]

isna(v) == v.t = "nan"

(* str(value), as astype(str) and str() give it. *)
str(v) == CASE v.t = "str" -> v.s
            [] v.t = "int" -> IntToStr(v.n)
            [] v.t = "float" -> IntToStr(v.n) \o ".0"
            [] OTHER -> "nan"

(***************************************************************************)
(* State name standardization.                                             *)
(***************************************************************************)
STATE_MAPPING ==
    "andaman & nicobar islands" :> "Andaman and Nicobar Islands" @@
    "andaman and nicobar islands" :> "Andaman and Nicobar Islands" @@
    "andhra pradesh" :> "Andhra Pradesh" @@
    "arunachal pradesh" :> "Arunachal Pradesh" @@
    "assam" :> "Assam" @@
    "bihar" :> "Bihar" @@
    "chandigarh" :> "Chandigarh" @@
    "chhattisgarh" :> "Chhattisgarh" @@
    "chhatisgarh" :> "Chhattisgarh" @@
    "dadra & nagar haveli" :> "Dadra and Nagar Haveli and Daman and Diu" @@
    "dadra and nagar haveli" :> "Dadra and Nagar Haveli and Daman and Diu" @@
    "dadra and nagar haveli and daman and diu" :> "Dadra and Nagar Haveli and Daman and Diu" @@
    "the dadra and nagar haveli and daman and diu" :> "Dadra and Nagar Haveli and Daman and Diu" @@
    "daman & diu" :> "Dadra and Nagar Haveli and Daman and Diu" @@
    "daman and diu" :> "Dadra and Nagar Haveli and Daman and Diu" @@
    "delhi" :> "Delhi" @@
    "goa" :> "Goa" @@
    "gujarat" :> "Gujarat" @@
    "haryana" :> "Haryana" @@
    "himachal pradesh" :> "Himachal Pradesh" @@
    "jammu & kashmir" :> "Jammu and Kashmir" @@
    "jammu and kashmir" :> "Jammu and Kashmir" @@
    "jharkhand" :> "Jharkhand" @@
    "karnataka" :> "Karnataka" @@
    "kerala" :> "Kerala" @@
    "ladakh" :> "Ladakh" @@
    "lakshadweep" :> "Lakshadweep" @@
    "madhya pradesh" :> "Madhya Pradesh" @@
    "maharashtra" :> "Maharashtra" @@
    "manipur" :> "Manipur" @@
    "meghalaya" :> "Meghalaya" @@
    "mizoram" :> "Mizoram" @@
    "nagaland" :> "Nagaland" @@
    "odisha" :> "Odisha" @@
    "orissa" :> "Odisha" @@
    "puducherry" :> "Puducherry" @@
    "pondicherry" :> "Puducherry" @@
    "punjab" :> "Punjab" @@
    "rajasthan" :> "Rajasthan" @@
    "sikkim" :> "Sikkim" @@
    "tamil nadu" :> "Tamil Nadu" @@
    "tamilnadu" :> "Tamil Nadu" @@
    "telangana" :> "Telangana" @@
    "tripura" :> "Tripura" @@
    "uttar pradesh" :> "Uttar Pradesh" @@
    "uttarakhand" :> "Uttarakhand" @@
    "uttaranchal" :> "Uttarakhand" @@
    "west bengal" :> "West Bengal" @@
    "west  bengal" :> "West Bengal" @@
    "west bangal" :> "West Bengal" @@
    "west bengli" :> "West Bengal" @@
    "westbengal" :> "West Bengal"

INVALID_STATES ==
    {"100000", "balanagar", "nagpur", "jaipur", "madanapalle",
     "raja annamalai puram"}

(* Variants of standardize_state with a slip in them. *)
(* An unknown name is kept, trimmed, instead of becoming INVALID. *)
standardize_state_echo(state_value) ==
    IF isna(state_value) THEN "INVALID"
    ELSE LET state_lower == lower(strip(str(state_value)))
         IN  IF state_lower \in INVALID_STATES THEN "INVALID"
             ELSE IF state_lower \in DOMAIN STATE_MAPPING
                  THEN STATE_MAPPING[state_lower]
                  ELSE strip(str(state_value))

(* The text is lower-cased but not trimmed before the lookup. *)
standardize_state_nostrip(state_value) ==
    IF isna(state_value) THEN "INVALID"
    ELSE LET state_lower == lower(str(state_value))
         IN  IF state_lower \in INVALID_STATES THEN "INVALID"
             ELSE IF state_lower \in DOMAIN STATE_MAPPING
                  THEN STATE_MAPPING[state_lower]
                  ELSE "INVALID"

RECURSIVE CollapseSpaces(_)
CollapseSpaces(s) ==
    IF Len(s) < 2 THEN s
    ELSE IF isspace(Head(s)) /\ isspace(Head(Tail(s))) THEN CollapseSpaces(Tail(s))
    ELSE Head(s) \o CollapseSpaces(Tail(s))

(* Runs of whitespace inside the text are collapsed before the lookup. *)
standardize_state_collapse(state_value) ==
    IF isna(state_value) THEN "INVALID"
    ELSE LET state_lower == CollapseSpaces(lower(strip(str(state_value))))
         IN  IF state_lower \in INVALID_STATES THEN "INVALID"
             ELSE IF state_lower \in DOMAIN STATE_MAPPING
                  THEN STATE_MAPPING[state_lower]
                  ELSE "INVALID"

(* The text is trimmed but not lower-cased before the lookup. *)
standardize_state_exact(state_value) ==
    IF isna(state_value) THEN "INVALID"
    ELSE LET state_lower == strip(str(state_value))
         IN  IF state_lower \in INVALID_STATES THEN "INVALID"
             ELSE IF state_lower \in DOMAIN STATE_MAPPING
                  THEN STATE_MAPPING[state_lower]
                  ELSE "INVALID"

standardize_state(state_value) ==
    IF isna(state_value) THEN "INVALID"
    ELSE LET state_lower == lower(strip(str(state_value)))
         IN  IF state_lower \in INVALID_STATES THEN "INVALID"
             ELSE IF state_lower \in DOMAIN STATE_MAPPING
                  THEN STATE_MAPPING[state_lower]
                  ELSE "INVALID"

(* standardize_state of the single-file variant, src/hackathon2, lines     *)
(* 156-172; its lines 19-153 are the two tables above, text for text.      *)
standardize_state_hackathon2(state_value) ==
    IF isna(state_value) THEN "INVALID"
    ELSE LET state_lower == lower(strip(str(state_value)))
         IN  IF state_lower \in INVALID_STATES THEN "INVALID"
             ELSE IF state_lower \in DOMAIN STATE_MAPPING
                  THEN STATE_MAPPING[state_lower]
                  ELSE "INVALID"

(***************************************************************************)
(* Dates.  pd.to_datetime(format='%d-%m-%Y', errors='coerce') matches the  *)
(* whole text against the strptime pattern                                 *)
(*   (3[0-1]|[1-2]\d|0[1-9]|[1-9]| [1-9])-(1[0-2]|0[1-9]|[1-9])-(\d\d\d\d) *)
(* checks the day against the month, and gives NaT for anything else and   *)
(* for a date outside the range of the result's dtype.  That dtype is      *)
(* datetime64[ns] up to pandas 2 and datetime64[us] from pandas 3; the     *)
(* repository pins no version.                                             *)
(***************************************************************************)
Units == {"ns", "us"}

NonZeroDigits == DOMAIN DigitValue \ {"0"}

(* Length of the %d token at the start of s; 0 when there is none. *)
DayToken(s) ==
    LET c1 == IF Len(s) >= 1 THEN Char(s, 1) ELSE ""
        c2 == IF Len(s) >= 2 THEN Char(s, 2) ELSE ""
    IN  IF c1 = "3" /\ c2 \in {"0", "1"} THEN 2
        ELSE IF c1 \in {"1", "2"} /\ isdigit(c2) THEN 2
        ELSE IF c1 = "0" /\ c2 \in NonZeroDigits THEN 2
        ELSE IF c1 \in NonZeroDigits THEN 1
        ELSE IF c1 = " " /\ c2 \in NonZeroDigits THEN 2
        ELSE 0

(* Length of the %m token at the start of s; 0 when there is none. *)
MonthToken(s) ==
    LET c1 == IF Len(s) >= 1 THEN Char(s, 1) ELSE ""
        c2 == IF Len(s) >= 2 THEN Char(s, 2) ELSE ""
    IN  IF c1 = "1" /\ c2 \in {"0", "1", "2"} THEN 2
        ELSE IF c1 = "0" /\ c2 \in NonZeroDigits THEN 2
        ELSE IF c1 \in NonZeroDigits THEN 1
        ELSE 0

(* Length of the %Y token at the start of s: four digits, or 0. *)
YearToken(s) ==
    IF Len(s) >= 4 /\ \A i \in 1..4 : isdigit(Char(s, i)) THEN 4 ELSE 0

IsLeap(y) == (y % 4 = 0 /\ y % 100 # 0) \/ y % 400 = 0

DaysInMonth(y, m) ==
    IF m = 2 THEN (IF IsLeap(y) THEN 29 ELSE 28)
    ELSE IF m \in {4, 6, 9, 11} THEN 30 ELSE 31

NaT == [nat |-> TRUE, y |-> 0, m |-> 0, d |-> 0]

DateLeq(y1, m1, d1, y2, m2, d2) ==
    \/ y1 < y2
    \/ y1 = y2 /\ m1 < m2
    \/ y1 = y2 /\ m1 = m2 /\ d1 <= d2

(* Midnight of a day is a datetime64[ns] from 1677-09-22 to 2262-04-11;  *)
(* every day of the years 1 to 9999 is a datetime64[us].                 *)
InTimestampBounds(y, m, d, unit) ==
    unit = "ns" =>
        /\ DateLeq(1677, 9, 22, y, m, d)
        /\ DateLeq(y, m, d, 2262, 4, 11)

to_datetime(v, unit) ==
    IF v.t # "str" THEN NaT
    ELSE LET s   == v.s
             dl  == DayToken(s)
             r1  == SubSeq(s, dl + 1, Len(s))
             ok1 == dl > 0 /\ r1 # "" /\ Head(r1) = "-"
             r2  == IF ok1 THEN Tail(r1) ELSE ""
             ml  == MonthToken(r2)
             r3  == SubSeq(r2, ml + 1, Len(r2))
             ok2 == ok1 /\ ml > 0 /\ r3 # "" /\ Head(r3) = "-"
             r4  == IF ok2 THEN Tail(r3) ELSE ""
             ok3 == ok2 /\ YearToken(r4) = 4 /\ Len(r4) = 4
         IN  IF ~ok3 THEN NaT
             ELSE LET d == DigitsToNat(lstrip(SubSeq(s, 1, dl)))
                      m == DigitsToNat(SubSeq(r2, 1, ml))
                      y == DigitsToNat(r4)
                  IN  IF /\ y >= 1
                         /\ d <= DaysInMonth(y, m)
                         /\ InTimestampBounds(y, m, d, unit)
                      THEN [nat |-> FALSE, y |-> y, m |-> m, d |-> d]
                      ELSE NaT

(* A variant of strftime that writes day-month-year. *)
strftime_dmy(ts) ==
    IF ts.nat THEN NaN
    ELSE Str(zfill(NatToStr(ts.d), 2) \o "-" \o zfill(NatToStr(ts.m), 2)
             \o "-" \o zfill(NatToStr(ts.y), 4))

(* Series.dt.strftime('%Y-%m-%d'): NaT becomes NaN. *)
strftime(ts) ==
    IF ts.nat THEN NaN
    ELSE Str(zfill(NatToStr(ts.y), 4) \o "-" \o zfill(NatToStr(ts.m), 2)
             \o "-" \o zfill(NatToStr(ts.d), 2))

(***************************************************************************)
(* DataFrames: the column names in order, and the rows in order, each row  *)
(* with its index label and its cells by column name.                      *)
(***************************************************************************)
Range(f) == {f[x] : x \in DOMAIN f}

RECURSIVE Flatten(_)
Flatten(seqs) == IF seqs = <<>> THEN <<>> ELSE Head(seqs) \o Flatten(Tail(seqs))

Frame(columns, rows) == [columns |-> columns, rows |-> rows]

(* The dtype of a column of whole numbers is int64 when no value is       *)
(* missing and float64 when one is: every number of it is then a float.   *)
Upcast(rows) ==
    LET holed == {c \in UNION {DOMAIN rows[k].v : k \in DOMAIN rows} :
                     /\ \E k \in DOMAIN rows : isna(rows[k].v[c])
                     /\ \E k \in DOMAIN rows : rows[k].v[c].t = "int"}
    IN  [k \in DOMAIN rows |->
            [index |-> rows[k].index,
             v |-> [c \in DOMAIN rows[k].v |->
                       IF c \in holed /\ rows[k].v[c].t = "int"
                       THEN Float64(rows[k].v[c].n) ELSE rows[k].v[c]]]]

(* pd.concat(dfs, ignore_index=True) of frames with the same columns. *)
concat(dfs) ==
    LET cells == Flatten([k \in DOMAIN dfs |-> dfs[k].rows])
    IN  Frame(dfs[1].columns,
              Upcast([k \in DOMAIN cells |-> [index |-> k - 1, v |-> cells[k].v]]))

(* A variant of KeepFirst that compares a row with the row before it only. *)
RECURSIVE KeepFirst_adjacent(_, _)
KeepFirst_adjacent(rows, seen) ==
    IF rows = <<>> THEN <<>>
    ELSE IF Head(rows).v \in seen THEN KeepFirst_adjacent(Tail(rows), {Head(rows).v})
    ELSE <<Head(rows)>> \o KeepFirst_adjacent(Tail(rows), {Head(rows).v})

(* DataFrame.drop_duplicates(): keeps the first of the rows that are equal *)
(* in every column; the survivors keep their index labels.                 *)
RECURSIVE KeepFirst(_, _)
KeepFirst(rows, seen) ==
    IF rows = <<>> THEN <<>>
    ELSE IF Head(rows).v \in seen THEN KeepFirst(Tail(rows), seen)
    ELSE <<Head(rows)>> \o KeepFirst(Tail(rows), seen \cup {Head(rows).v})

(* A variant of drop_duplicates that removes one duplicate row per call. *)
RECURSIVE DropOne(_, _)
DropOne(rows, seen) ==
    IF rows = <<>> THEN <<>>
    ELSE IF Head(rows).v \in seen THEN Tail(rows)
    ELSE <<Head(rows)>> \o DropOne(Tail(rows), seen \cup {Head(rows).v})

(* A variant of drop_duplicates that compares the rows with their state   *)
(* standardized.                                                          *)
RECURSIVE KeepFirst_canonical(_, _)
KeepFirst_canonical(rows, seen) ==
    IF rows = <<>> THEN <<>>
    ELSE LET key == [Head(rows).v EXCEPT !["state"] = Str(standardize_state(@))]
         IN  IF key \in seen THEN KeepFirst_canonical(Tail(rows), seen)
             ELSE <<Head(rows)>> \o KeepFirst_canonical(Tail(rows), seen \cup {key})

drop_duplicates_canonical(frame) == Frame(frame.columns, KeepFirst_canonical(frame.rows, {}))

(* A variant of drop_duplicates that removes nothing. *)
drop_duplicates_none(frame) == frame

drop_duplicates_once(frame) == Frame(frame.columns, DropOne(frame.rows, {}))

drop_duplicates(frame) == Frame(frame.columns, KeepFirst(frame.rows, {}))

(* frame[col]: the cells of a column, row by row. *)
Column(frame, col) == [k \in DOMAIN frame.rows |-> frame.rows[k].v[col]]

(* A variant of Assign that drops the rows whose new value is missing. *)
Assign_dropna(frame, col, series) ==
    LET kept == SelectSeq([k \in DOMAIN frame.rows |-> k], LAMBDA k : ~isna(series[k]))
    IN  Frame(IF col \in Range(frame.columns) THEN frame.columns
              ELSE Append(frame.columns, col),
              [j \in DOMAIN kept |->
                  [index |-> frame.rows[kept[j]].index,
                   v     |-> (col :> series[kept[j]]) @@ frame.rows[kept[j]].v]])

(* frame[col] = series: overwrites the column, or appends a new one. *)
Assign(frame, col, series) ==
    Frame(IF col \in Range(frame.columns) THEN frame.columns
          ELSE Append(frame.columns, col),
          [k \in DOMAIN frame.rows |->
              [index |-> frame.rows[k].index,
               v     |-> (col :> series[k]) @@ frame.rows[k].v]])

(* A variant of CellLess that puts NaN before every text. *)
CellLess_nafirst(a, b) ==
    IF isna(b) THEN FALSE
    ELSE IF isna(a) THEN TRUE
    ELSE StrLess(a.s, b.s)

(* Order of two cells of a sort column: NaN after every text. *)
CellLess(a, b) ==
    IF isna(a) THEN FALSE
    ELSE IF isna(b) THEN TRUE
    ELSE StrLess(a.s, b.s)

RECURSIVE KeyLess(_, _, _)
KeyLess(r1, r2, by) ==
    IF by = <<>> THEN FALSE
    ELSE IF r1.v[Head(by)] = r2.v[Head(by)] THEN KeyLess(r1, r2, Tail(by))
    ELSE CellLess(r1.v[Head(by)], r2.v[Head(by)])

(* A variant of Merge that lets the right run go first on a tie. *)
RECURSIVE Merge_unstable(_, _, _)
Merge_unstable(left, right, by) ==
    IF left = <<>> THEN right
    ELSE IF right = <<>> THEN left
    ELSE IF ~KeyLess(Head(left), Head(right), by)
         THEN <<Head(right)>> \o Merge_unstable(left, Tail(right), by)
         ELSE <<Head(left)>> \o Merge_unstable(Tail(left), right, by)

(* The merge of mergesort: on a tie the left run goes first. *)
RECURSIVE Merge(_, _, _)
Merge(left, right, by) ==
    IF left = <<>> THEN right
    ELSE IF right = <<>> THEN left
    ELSE IF KeyLess(Head(right), Head(left), by)
         THEN <<Head(right)>> \o Merge(left, Tail(right), by)
         ELSE <<Head(left)>> \o Merge(Tail(left), right, by)

RECURSIVE MergeSort(_, _)
MergeSort(rows, by) ==
    IF Len(rows) <= 1 THEN rows
    ELSE LET mid == Len(rows) \div 2
         IN  Merge(MergeSort(SubSeq(rows, 1, mid), by),
                   MergeSort(SubSeq(rows, mid + 1, Len(rows)), by), by)

(* sort_values(by, ascending, kind="mergesort"): rows move with their labels. *)
sort_values(frame, by) == Frame(frame.columns, MergeSort(frame.rows, by))

(* reset_index(drop=True): the labels become 0, 1, 2, ... *)
reset_index(frame) ==
    Frame(frame.columns,
          [k \in DOMAIN frame.rows |-> [index |-> k - 1, v |-> frame.rows[k].v]])

(* frame[cols]: the columns cols, in that order. *)
Select(frame, cols) ==
    Frame(cols,
          [k \in DOMAIN frame.rows |->
              [index |-> frame.rows[k].index,
               v     |-> [c \in Range(cols) |-> frame.rows[k].v[c]]]])

(* df.iloc[start:end]: rows start..end-1, counted from 0. *)
iloc(frame, start, end) == Frame(frame.columns, SubSeq(frame.rows, start + 1, end))

(***************************************************************************)
(* CSV output.  to_csv(index=False) writes the header and one line per row *)
(* with every cell as text and NaN as the empty text.                      *)
(***************************************************************************)
CsvField(v) == IF isna(v) THEN "" ELSE str(v)

to_csv(frame) ==
    [header |-> frame.columns,
     lines  |-> [k \in DOMAIN frame.rows |->
                    [j \in DOMAIN frame.columns |->
                        CsvField(frame.rows[k].v[frame.columns[j]])]]]

RECURSIVE SumLen(_)
SumLen(fields) == IF fields = <<>> THEN 0 ELSE Len(Head(fields)) + SumLen(Tail(fields))

(* Bytes of a line: the fields, the commas between them and the newline. *)
LineSize(fields) == SumLen(fields) + Len(fields)

RECURSIVE SumSize(_)
SumSize(lines) == IF lines = <<>> THEN 0 ELSE LineSize(Head(lines)) + SumSize(Tail(lines))

(* os.path.getsize of a written file, in bytes. *)
getsize(file) == LineSize(file.header) + SumSize(file.lines)

(***************************************************************************)
(* Bounds and inputs of the model.                                         *)
(***************************************************************************)
(* Most rows in the input files of a run, all files together. *)
MaxRows == 3

(* Largest row cap per output file tried; stands for EXCEL_MAX_ROWS. *)
MaxCap == 3

RawColumns == <<"date", "state", "district", "pincode", "bio_age_5_17">>

RawRow(date, state, district, pincode, n) ==
    [c \in Range(RawColumns) |->
        CASE c = "date" -> date
          [] c = "state" -> state
          [] c = "district" -> district
          [] c = "pincode" -> pincode
          [] OTHER -> n]

(* The rows a raw file may hold, as pd.read_csv returns them. *)
RawRows ==
    { RawRow(Str("02-01-2025"), Str("West  Bengal"), Str("  north  24 parganas "),
             Int64(700001), Int64(5)),
      RawRow(Str("02-01-2025"), Str("West  Bengal"), Str("North  24 Parganas"),
             Int64(12345), Int64(5)),
      RawRow(Str("01-01-2025"), Str("Orissa"), Str("Khordha"),
             Int64(751001), Int64(7)),
      RawRow(Str("01-01-2025"), Str("Odisha"), Str("Khordha"),
             Int64(751001), Int64(7)),
      RawRow(Str("31-02-2025"), NaN, NaN,
             Int64(1234567), Int64(0)),
      RawRow(Str("2-1-2025"), Str(" Bombay"), Str("khordha"),
             Int64(751001), Int64(7)) }

(* read_csv of a file holding the given rows. *)
read_csv(cells) ==
    Frame(RawColumns, [k \in DOMAIN cells |-> [index |-> k - 1, v |-> cells[k]]])

RawTables == UNION {[1..k -> RawRows] : k \in 0..MaxRows}

FileNames == {"a.csv", "b.csv"}

(* The contents an input directory may have: no file, one file, or two    *)
(* files that share the rows of a table.                                  *)
InputDirs ==
    {<<>>}
    \cup {f :> t : f \in FileNames, t \in RawTables}
    \cup {("a.csv" :> SubSeq(t, 1, k)) @@ ("b.csv" :> SubSeq(t, k + 1, Len(t))) :
             <<t, k>> \in {<<t, k>> \in RawTables \X (0..MaxRows) : k <= Len(t)}}

(* The orders glob.glob may list a set of files in. *)
Listings(names) ==
    {q \in [1..Cardinality(names) -> names] : Range(q) = names}

(* A variant of OutputBase with one base for the three datasets. *)
OutputBase_shared ==
    ("BIOMETRIC" :> "cleaned_data/cleaned") @@
    ("DEMOGRAPHIC" :> "cleaned_data/cleaned") @@
    ("ENROLMENT" :> "cleaned_data/cleaned")

(* The output_base of each dataset of main(). *)
OutputBase ==
    ("BIOMETRIC" :> "cleaned_data/biometric_cleaned") @@
    ("DEMOGRAPHIC" :> "cleaned_data/demographic_cleaned") @@
    ("ENROLMENT" :> "cleaned_data/enrolment_cleaned")

(***************************************************************************)
(* Inputs of standardize_state alone: a lower-case, trimmed text, re-cased *)
(* and padded with whitespace, or a missing value.                         *)
(***************************************************************************)
OtherTexts ==
    {"", "bombay", "atlantis", "west   bengal", "tamil  nadu", "w est bengal",
     "delhi ncr", "goa & daman", "0", "invalid"}

BaseTexts == DOMAIN STATE_MAPPING \cup INVALID_STATES \cup OtherTexts

Casings == {"lower", "upper", "title", "odd", "even"}

Paddings == {<<"", "">>, <<" ", "">>, <<"", "\t">>, <<"  ", " \t ">>}

(* Upper-cases every second character, starting with the first or second. *)
RECURSIVE Alternate(_, _)
Alternate(s, up) ==
    IF s = "" THEN ""
    ELSE (IF up THEN UpperChar(Head(s)) ELSE Head(s)) \o Alternate(Tail(s), ~up)

Recase(s, casing) ==
    CASE casing = "lower" -> s
      [] casing = "upper" -> upper(s)
      [] casing = "title" -> title(s)
      [] casing = "odd" -> Alternate(s, TRUE)
      [] OTHER -> Alternate(s, FALSE)

Variant(base, casing, padding) == padding[1] \o Recase(base, casing) \o padding[2]

NoProbe == [null |-> TRUE, base |-> "", casing |-> "lower", padding |-> <<"", "">>]

EmptyFrame == Frame(<<>>, <<>>)

VARIABLES
    input_dir,           \* the raw files of the category: name -> rows
    disk,                \* the output directory: file name -> file written
    pc,                  \* where clean_dataset is
    output_base,         \* its argument
    df,                  \* the concatenated raw frame
    df_dedup,            \* the frame being cleaned
    original_rows,
    duplicates_removed,
    invalid_count,
    max_rows,            \* split_and_save: the cap
    num_parts,           \* split_and_save: number of parts when splitting
    i,                   \* split_and_save: loop variable
    files_info,          \* split_and_save: its result so far
    stats,               \* what clean_dataset returned
    probe,               \* how the argument of a lone call was built
    state_value,         \* the argument of a lone standardize_state call
    result,              \* and what the call returned
    date_value,          \* the date cell of a lone date conversion
    date_result,         \* and the cell it became
    run,                 \* which run of the program this is, from 1
    datasets,            \* main: the datasets from the one in hand on
    inputs,              \* main: the raw files of each dataset
    all_stats,           \* main: the statistics returned so far
    workers              \* one clean_dataset per dataset, side by side

vars == <<input_dir, disk, pc, output_base, df, df_dedup, original_rows,
          duplicates_removed, invalid_count, max_rows, num_parts, i,
          files_info, stats, probe, state_value, result, date_value, date_result,
          run, datasets, inputs, all_stats, workers>>

call == <<probe, state_value, result, date_value, date_result>>

program == <<run, datasets, inputs, all_stats, workers>>

io == <<input_dir, disk, output_base, call, program>>

counts == <<original_rows, duplicates_removed, invalid_count>>

split == <<max_rows, num_parts, i, files_info>>

Locals ==
    /\ df = EmptyFrame
    /\ df_dedup = EmptyFrame
    /\ original_rows = 0
    /\ duplicates_removed = 0
    /\ invalid_count = 0
    /\ max_rows = 0
    /\ num_parts = 0
    /\ i = 0
    /\ files_info = <<>>
    /\ stats = <<>>

(* One run, of one dataset. *)
OneDataset ==
    /\ run = 1
    /\ datasets = <<"BIOMETRIC">>
    /\ inputs = <<>>
    /\ all_stats = <<>>
    /\ workers = <<>>

Init ==
    /\ input_dir \in InputDirs
    /\ output_base = OutputBase["BIOMETRIC"]
    /\ disk = <<>>
    /\ pc = "load"
    /\ Locals
    /\ probe = NoProbe
    /\ state_value = NaN
    /\ result = ""
    /\ date_value = NaN
    /\ date_result = NaN
    /\ OneDataset

(* A variant of Load that takes no file for an empty frame and goes on. *)
Load_tolerant ==
    /\ pc = "load"
    /\ \E csv_files \in Listings(DOMAIN input_dir) :
         LET dfs == [k \in DOMAIN csv_files |-> read_csv(input_dir[csv_files[k]])]
             all == IF dfs = <<>> THEN Frame(RawColumns, <<>>) ELSE concat(dfs)
         IN  /\ df' = all
             /\ original_rows' = Len(all.rows)
             /\ pc' = "dedup"
    /\ UNCHANGED <<io, df_dedup, duplicates_removed, invalid_count, split, stats>>

(* Lines 247-258: list the files, read each, concatenate.  pd.concat of   *)
(* no frames raises ValueError, which clean_dataset does not catch.       *)
Load ==
    /\ pc = "load"
    /\ \E csv_files \in Listings(DOMAIN input_dir) :
         LET dfs == [k \in DOMAIN csv_files |-> read_csv(input_dir[csv_files[k]])]
         IN  IF dfs = <<>>
             THEN /\ pc' = "raised"
                  /\ UNCHANGED <<df, original_rows>>
             ELSE /\ df' = concat(dfs)
                  /\ original_rows' = Len(concat(dfs).rows)
                  /\ pc' = "dedup"
    /\ UNCHANGED <<io, df_dedup, duplicates_removed, invalid_count, split, stats>>

(* Lines 261-264. *)
RemoveDuplicates ==
    /\ pc = "dedup"
    /\ df_dedup' = drop_duplicates(df)
    /\ duplicates_removed' = original_rows - Len(drop_duplicates(df).rows)
    /\ pc' = "state"
    /\ UNCHANGED <<io, df, original_rows, invalid_count, split, stats>>

(* A variant of CopyState that keeps the trimmed text. *)
CopyState_stripped(series) ==
    [k \in DOMAIN series |->
        IF series[k].t = "str" THEN Str(strip(series[k].s)) ELSE series[k]]

(* Series.copy() *)
CopyState(series) == series

(* Series.apply(standardize_state) *)
NewState(series) == [k \in DOMAIN series |-> Str(standardize_state(series[k]))]

(* A variant of CountInvalid that counts the rows without a raw state only. *)
CountInvalid_missing(frame) ==
    Cardinality({k \in DOMAIN frame.rows : isna(frame.rows[k].v["state_original"])})

CountInvalid(frame) ==
    Cardinality({k \in DOMAIN frame.rows : frame.rows[k].v["state"] = Str("INVALID")})

(* Lines 266-271. *)
StandardizeStates ==
    /\ pc = "state"
    /\ LET withOriginal ==
               Assign(df_dedup, "state_original", CopyState(Column(df_dedup, "state")))
           standardized ==
               Assign(withOriginal, "state", NewState(Column(withOriginal, "state")))
       IN  /\ df_dedup' = standardized
           /\ invalid_count' = CountInvalid(standardized)
    /\ pc' = "district"
    /\ UNCHANGED <<io, df, original_rows, duplicates_removed, split, stats>>

(* A variant of NewDistrict that upper-cases the first letter only. *)
NewDistrict_capitalize(series) ==
    [k \in DOMAIN series |->
        IF series[k].t = "str"
        THEN LET s == strip(series[k].s)
             IN  Str(IF s = "" THEN "" ELSE UpperChar(Head(s)) \o lower(Tail(s)))
        ELSE NaN]

(* .str.strip().str.title(): a missing value stays missing. *)
NewDistrict(series) ==
    [k \in DOMAIN series |->
        IF series[k].t = "str" THEN Str(title(strip(series[k].s))) ELSE NaN]

(* Lines 273-274. *)
StandardizeDistricts ==
    /\ pc = "district"
    /\ df_dedup' = Assign(df_dedup, "district", NewDistrict(Column(df_dedup, "district")))
    /\ pc' = "date"
    /\ UNCHANGED <<io, df, counts, split, stats>>

NewDate(series, unit) == [k \in DOMAIN series |-> strftime(to_datetime(series[k], unit))]

(* Lines 276-278. *)
ConvertDates ==
    /\ pc = "date"
    /\ \E unit \in Units :
         df_dedup' = Assign(df_dedup, "date", NewDate(Column(df_dedup, "date"), unit))
    /\ pc' = "pincode"
    /\ UNCHANGED <<io, df, counts, split, stats>>

NewPincode(series) == [k \in DOMAIN series |-> Str(zfill(str(series[k]), 6))]

(* Lines 280-281. *)
PadPincodes ==
    /\ pc = "pincode"
    /\ df_dedup' = Assign(df_dedup, "pincode", NewPincode(Column(df_dedup, "pincode")))
    /\ pc' = "sort"
    /\ UNCHANGED <<io, df, counts, split, stats>>

sort_cols == <<"date", "state", "district">>

(* Lines 288-294. *)
SortRows ==
    /\ pc = "sort"
    /\ df_dedup' = sort_values(df_dedup, sort_cols)
    /\ pc' = "reset_index"
    /\ UNCHANGED <<io, df, counts, split, stats>>

(* Line 295. *)
ResetIndex ==
    /\ pc = "reset_index"
    /\ df_dedup' = reset_index(df_dedup)
    /\ pc' = "reorder"
    /\ UNCHANGED <<io, df, counts, split, stats>>

(* [c for c in columns if c != 'state_original'] + ['state_original'] *)
ReorderedColumns(columns) ==
    Append(SelectSeq(columns, LAMBDA c : c # "state_original"), "state_original")

(* Lines 298-300. *)
ReorderColumns ==
    /\ pc = "reorder"
    /\ df_dedup' = Select(df_dedup, ReorderedColumns(df_dedup.columns))
    /\ pc' = "split"
    /\ UNCHANGED <<io, df, counts, split, stats>>

(* A variant of PartFile that leaves the base out of the name. *)
PartFile_nobase(base, n) == "cleaned_data/part" \o IntToStr(n) \o ".csv"

(* f"{output_base}_part{n}.csv" *)
PartFile(base, n) == base \o "_part" \o IntToStr(n) \o ".csv"

FileInfo(name, frame, file) ==
    [file |-> name, rows |-> Len(frame.rows), size |-> getsize(file)]

(* Variants of NumParts: without the part for the remainder, and with a *)
(* part too many when there is no remainder.                             *)
NumParts_floor(total_rows, cap) == total_rows \div cap

NumParts_extra(total_rows, cap) == (total_rows \div cap) + 1

(* A variant of FitsOneFile that always takes the loop. *)
FitsOneFile_never(total_rows, cap) == FALSE

(* Line 196: a frame within the cap is written whole. *)
FitsOneFile(total_rows, cap) == total_rows <= cap

(* (total_rows // max_rows) + (1 if total_rows % max_rows else 0) *)
NumParts(total_rows, cap) ==
    (total_rows \div cap) + (IF total_rows % cap # 0 THEN 1 ELSE 0)

Min(a, b) == IF a <= b THEN a ELSE b

(* Line 304 and lines 193-208: the call of split_and_save; a frame within *)
(* the cap is written whole as part1, a larger one enters the loop.  The  *)
(* cap is EXCEL_MAX_ROWS: the same at every call.                         *)
SplitAndSave ==
    /\ pc = "split"
    /\ \E cap \in 1..MaxCap :
         LET total_rows == Len(df_dedup.rows)
             output_file == PartFile(output_base, 1)
         IN  /\ max_rows \in {0, cap}
             /\ max_rows' = cap
             /\ i' = 0
             /\ IF FitsOneFile(total_rows, cap)
                THEN /\ disk' = (output_file :> to_csv(df_dedup)) @@ disk
                     /\ files_info' = <<FileInfo(output_file, df_dedup, to_csv(df_dedup))>>
                     /\ num_parts' = 0
                     /\ pc' = "return"
                ELSE /\ num_parts' = NumParts(total_rows, cap)
                     /\ files_info' = <<>>
                     /\ pc' = IF NumParts(total_rows, cap) > 0 THEN "parts" ELSE "return"
                     /\ UNCHANGED disk
    /\ UNCHANGED <<input_dir, output_base, call, program, df, df_dedup, counts, stats>>

(* Lines 210-224: one pass of the loop writes part i + 1. *)
WritePart ==
    /\ pc = "parts"
    /\ i < num_parts
    /\ LET total_rows == Len(df_dedup.rows)
           start_idx == i * max_rows
           end_idx == Min((i + 1) * max_rows, total_rows)
           part_df == iloc(df_dedup, start_idx, end_idx)
           output_file == PartFile(output_base, i + 1)
       IN  /\ disk' = (output_file :> to_csv(part_df)) @@ disk
           /\ files_info' = Append(files_info, FileInfo(output_file, part_df, to_csv(part_df)))
    /\ i' = i + 1
    /\ pc' = IF i + 1 < num_parts THEN "parts" ELSE "return"
    /\ UNCHANGED <<input_dir, output_base, call, program, df, df_dedup, counts, max_rows,
                   num_parts, stats>>

(* A variant of nunique that leaves INVALID out of the count. *)
nunique_official(frame, col) ==
    Cardinality({frame.rows[k].v[col] : k \in DOMAIN frame.rows} \ {NaN, Str("INVALID")})

nunique(frame, col) ==
    Cardinality({frame.rows[k].v[col] : k \in DOMAIN frame.rows} \ {NaN})

(* Lines 306-318. *)
Return ==
    /\ pc = "return"
    /\ stats' = [dataset |-> Head(datasets),
                 original_rows |-> original_rows,
                 duplicates_removed |-> duplicates_removed,
                 invalid_states |-> invalid_count,
                 final_rows |-> Len(df_dedup.rows),
                 unique_states |-> nunique(df_dedup, "state"),
                 files_info |-> files_info]
    /\ pc' = "done"
    /\ UNCHANGED <<io, df, df_dedup, counts, split>>

Next ==
    \/ Load
    \/ RemoveDuplicates
    \/ StandardizeStates
    \/ StandardizeDistricts
    \/ ConvertDates
    \/ PadPincodes
    \/ SortRows
    \/ ResetIndex
    \/ ReorderColumns
    \/ SplitAndSave
    \/ WritePart
    \/ Return

Spec == Init /\ [][Next]_vars

(***************************************************************************)
(* standardize_state called on its own, on every input of the family above. *)
(***************************************************************************)
InitCanon ==
    /\ input_dir = <<>>
    /\ output_base = OutputBase["BIOMETRIC"]
    /\ disk = <<>>
    /\ pc = "call"
    /\ Locals
    /\ probe = NoProbe
    /\ state_value = NaN
    /\ result = ""
    /\ date_value = NaN
    /\ date_result = NaN
    /\ OneDataset

pipeline == <<input_dir, disk, output_base, df, df_dedup, counts, split, stats, program>>

(* Lines 156-172, called with a text. *)
StandardizeText ==
    /\ pc = "call"
    /\ \E base \in BaseTexts, casing \in Casings, padding \in Paddings :
         /\ probe' = [null |-> FALSE, base |-> base, casing |-> casing,
                      padding |-> padding]
         /\ state_value' = Str(Variant(base, casing, padding))
         /\ result' = standardize_state(Str(Variant(base, casing, padding)))
    /\ pc' = "returned"
    /\ UNCHANGED <<pipeline, date_value, date_result>>

(* Lines 156-172, called with a missing value. *)
StandardizeMissing ==
    /\ pc = "call"
    /\ probe' = NoProbe
    /\ state_value' = NaN
    /\ result' = standardize_state(NaN)
    /\ pc' = "returned"
    /\ UNCHANGED <<pipeline, date_value, date_result>>

NextCanon == StandardizeText \/ StandardizeMissing

SpecCanon == InitCanon /\ [][NextCanon]_vars

(***************************************************************************)
(* The date conversion of lines 277-278 on one cell: a day, a month and a  *)
(* year written in one of several layouts, or a missing value.             *)
(***************************************************************************)
Days == {0, 1, 9, 11, 12, 21, 22, 28, 29, 30, 31, 32}

Months == {0, 1, 2, 4, 9, 12, 13}

Years == {0, 1, 1677, 1678, 1900, 2024, 2025, 2261, 2262, 2263, 3000, 9999}

Layouts == {"dd-mm-yyyy", "d-m-yyyy", "dd/mm/yyyy", "yyyy-mm-dd", "dd-mm-yy", "dd-mm-yyyy "}

DateText(d, m, y, layout) ==
    LET dd == zfill(NatToStr(d), 2)
        mm == zfill(NatToStr(m), 2)
        yyyy == zfill(NatToStr(y), 4)
    IN  CASE layout = "dd-mm-yyyy" -> dd \o "-" \o mm \o "-" \o yyyy
          [] layout = "d-m-yyyy" -> NatToStr(d) \o "-" \o NatToStr(m) \o "-" \o yyyy
          [] layout = "dd/mm/yyyy" -> dd \o "/" \o mm \o "/" \o yyyy
          [] layout = "yyyy-mm-dd" -> yyyy \o "-" \o mm \o "-" \o dd
          [] layout = "dd-mm-yy" -> dd \o "-" \o mm \o "-" \o SubSeq(yyyy, 3, 4)
          [] OTHER -> dd \o "-" \o mm \o "-" \o yyyy \o " "

InitDate ==
    /\ input_dir = <<>>
    /\ output_base = OutputBase["BIOMETRIC"]
    /\ disk = <<>>
    /\ pc = "convert"
    /\ Locals
    /\ probe = NoProbe
    /\ state_value = NaN
    /\ result = ""
    /\ date_value = NaN
    /\ date_result = NaN
    /\ OneDataset

(* Lines 277-278 on a text. *)
ConvertDateText ==
    /\ pc = "convert"
    /\ \E d \in Days, m \in Months, y \in Years, layout \in Layouts, unit \in Units :
         /\ probe' = [null |-> FALSE, d |-> d, m |-> m, y |-> y, layout |-> layout]
         /\ date_value' = Str(DateText(d, m, y, layout))
         /\ date_result' = NewDate(<<Str(DateText(d, m, y, layout))>>, unit)[1]
    /\ pc' = "converted"
    /\ UNCHANGED <<pipeline, state_value, result>>

(* Lines 277-278 on a missing value. *)
ConvertDateMissing ==
    /\ pc = "convert"
    /\ \E unit \in Units :
         /\ probe' = NoProbe
         /\ date_value' = NaN
         /\ date_result' = NewDate(<<NaN>>, unit)[1]
    /\ pc' = "converted"
    /\ UNCHANGED <<pipeline, state_value, result>>

NextDate == ConvertDateText \/ ConvertDateMissing

SpecDate == InitDate /\ [][NextDate]_vars

(***************************************************************************)
(* clean_dataset on one raw file whose rows differ in the pincode only: a  *)
(* number of five, six or seven digits, a negative number, a missing one.  *)
(***************************************************************************)
PinRow(pincode) == RawRow(Str("01-01-2025"), Str("Goa"), Str("Panaji"), pincode, Int64(1))

PinRows ==
    {PinRow(Int64(12345)), PinRow(Int64(600001)), PinRow(Int64(1234567)),
     PinRow(Int64(-12)), PinRow(NaN)}

(* An input directory with one file of 1..MaxRows of the given rows. *)
OneFileDirs(rows) == {"a.csv" :> t : t \in UNION {[1..k -> rows] : k \in 1..MaxRows}}

InitPin ==
    /\ input_dir \in OneFileDirs(PinRows)
    /\ output_base = OutputBase["BIOMETRIC"]
    /\ disk = <<>>
    /\ pc = "load"
    /\ Locals
    /\ probe = NoProbe
    /\ state_value = NaN
    /\ result = ""
    /\ date_value = NaN
    /\ date_result = NaN
    /\ OneDataset

SpecPin == InitPin /\ [][Next]_vars

(***************************************************************************)
(* The program run again on new raw files, the output directory as the run *)
(* before left it.                                                         *)
(***************************************************************************)
(* Most runs of the program in a row. *)
MaxRuns == 2

PlainRows ==
    {RawRow(Str("01-01-2025"), Str("Goa"), Str("Panaji"), Int64(403001), Int64(n)) :
         n \in {1, 2}}

InitRerun ==
    /\ input_dir \in OneFileDirs(PlainRows)
    /\ output_base = OutputBase["BIOMETRIC"]
    /\ disk = <<>>
    /\ pc = "load"
    /\ Locals
    /\ probe = NoProbe
    /\ state_value = NaN
    /\ result = ""
    /\ date_value = NaN
    /\ date_result = NaN
    /\ OneDataset

(* The next run: clean_dataset starts afresh on the files then present;   *)
(* nothing removes the files in cleaned_data (line 398 keeps a directory  *)
(* that exists).                                                          *)
Rerun ==
    /\ pc = "done"
    /\ run < MaxRuns
    /\ run' = run + 1
    /\ input_dir' \in OneFileDirs(PlainRows)
    /\ df' = EmptyFrame
    /\ df_dedup' = EmptyFrame
    /\ original_rows' = 0
    /\ duplicates_removed' = 0
    /\ invalid_count' = 0
    /\ num_parts' = 0
    /\ i' = 0
    /\ files_info' = <<>>
    /\ stats' = <<>>
    /\ pc' = "load"
    /\ UNCHANGED <<disk, output_base, call, max_rows, datasets, inputs, all_stats, workers>>

NextRerun == Next \/ Rerun

SpecRerun == InitRerun /\ [][NextRerun]_vars

(***************************************************************************)
(* main(): the three datasets one after the other, then the two reports.   *)
(***************************************************************************)
DatasetNames == <<"BIOMETRIC", "DEMOGRAPHIC", "ENROLMENT">>

(* The raw files a dataset may have in a run of main: none, or one file of *)
(* one or two rows.                                                        *)
MainDirs ==
    {<<>>} \cup {"a.csv" :> t : t \in UNION {[1..k -> PlainRows] : k \in {1, 2}}}

report_file == "cleaned_data/cleaning_report.txt"

split_summary_file == "cleaned_data/SPLIT_FILES_SUMMARY.txt"

(* sum(fi['rows'] for fi in stats['files_info']) *)
RECURSIVE SumRows(_)
SumRows(infos) == IF infos = <<>> THEN 0 ELSE Head(infos).rows + SumRows(Tail(infos))

(* os.path.basename *)
RECURSIVE basename(_)
basename(path) ==
    IF \A j \in 1..Len(path) : Char(path, j) # "/" THEN path ELSE basename(Tail(path))

(* Lines 321-350: what the report says of each dataset; its fixed lines    *)
(* and the time of writing are left out.                                   *)
generate_report(stats_list) ==
    [title |-> "AADHAAR DATA CLEANING REPORT",
     sections |-> [k \in DOMAIN stats_list |->
                      [dataset |-> stats_list[k].dataset,
                       original_rows |-> stats_list[k].original_rows,
                       duplicates_removed |-> stats_list[k].duplicates_removed,
                       invalid_states |-> stats_list[k].invalid_states,
                       final_rows |-> stats_list[k].final_rows,
                       unique_states |-> stats_list[k].unique_states]]]

(* A variant of generate_split_summary that totals the raw rows. *)
generate_split_summary_raw(stats_list) ==
    [title |-> "CLEANED DATA - SPLIT FILES SUMMARY",
     sections |-> [k \in DOMAIN stats_list |->
                      [dataset |-> stats_list[k].dataset,
                       files |-> [j \in DOMAIN stats_list[k].files_info |->
                                     [name |-> basename(stats_list[k].files_info[j].file),
                                      rows |-> stats_list[k].files_info[j].rows,
                                      size |-> stats_list[k].files_info[j].size]],
                       count |-> Len(stats_list[k].files_info),
                       total_rows |-> stats_list[k].original_rows]]]

(* Lines 353-390: what the summary says of each dataset and its files. *)
generate_split_summary(stats_list) ==
    [title |-> "CLEANED DATA - SPLIT FILES SUMMARY",
     sections |-> [k \in DOMAIN stats_list |->
                      [dataset |-> stats_list[k].dataset,
                       files |-> [j \in DOMAIN stats_list[k].files_info |->
                                     [name |-> basename(stats_list[k].files_info[j].file),
                                      rows |-> stats_list[k].files_info[j].rows,
                                      size |-> stats_list[k].files_info[j].size]],
                       count |-> Len(stats_list[k].files_info),
                       total_rows |-> SumRows(stats_list[k].files_info)]]]

InitMain ==
    /\ inputs \in [Range(DatasetNames) -> MainDirs]
    /\ datasets = DatasetNames
    /\ input_dir = inputs[DatasetNames[1]]
    /\ output_base = OutputBase[DatasetNames[1]]
    /\ run = 1
    /\ all_stats = <<>>
    /\ workers = <<>>
    /\ disk = <<>>
    /\ pc = "load"
    /\ Locals
    /\ probe = NoProbe
    /\ state_value = NaN
    /\ result = ""
    /\ date_value = NaN
    /\ date_result = NaN

(* Lines 421-424: the statistics returned are kept and clean_dataset is   *)
(* called for the next dataset.                                           *)
NextDataset ==
    /\ pc = "done"
    /\ Len(datasets) > 1
    /\ all_stats' = Append(all_stats, stats)
    /\ datasets' = Tail(datasets)
    /\ input_dir' = inputs[datasets[2]]
    /\ output_base' = OutputBase[datasets[2]]
    /\ df' = EmptyFrame
    /\ df_dedup' = EmptyFrame
    /\ original_rows' = 0
    /\ duplicates_removed' = 0
    /\ invalid_count' = 0
    /\ num_parts' = 0
    /\ i' = 0
    /\ files_info' = <<>>
    /\ stats' = <<>>
    /\ pc' = "load"
    /\ UNCHANGED <<disk, call, max_rows, run, inputs, workers>>

(* Lines 424-428: after the last dataset, the cleaning report. *)
WriteReport ==
    /\ pc = "done"
    /\ Len(datasets) = 1
    /\ all_stats' = Append(all_stats, stats)
    /\ datasets' = <<>>
    /\ disk' = (report_file :> generate_report(Append(all_stats, stats))) @@ disk
    /\ pc' = "summary"
    /\ UNCHANGED <<input_dir, output_base, call, df, df_dedup, counts, split, stats,
                   run, inputs, workers>>

(* Lines 430-432: the summary of the split files; main returns. *)
WriteSplitSummary ==
    /\ pc = "summary"
    /\ disk' = (split_summary_file :> generate_split_summary(all_stats)) @@ disk
    /\ pc' = "exit"
    /\ UNCHANGED <<input_dir, output_base, call, df, df_dedup, counts, split, stats,
                   program>>

NextMain == Next \/ NextDataset \/ WriteReport \/ WriteSplitSummary

SpecMain == InitMain /\ [][NextMain]_vars

(***************************************************************************)
(* The three clean_dataset calls of main side by side, one worker each,    *)
(* sharing the output directory; a step of a worker is the cleaning of its *)
(* frame (lines 247-300, which touch no shared file) or one file written   *)
(* by split_and_save.                                                      *)
(***************************************************************************)
(* Lines 261-300 on the concatenated raw frame. *)
Cleaned(raw, unit) ==
    LET d1 == drop_duplicates(raw)
        d2 == Assign(d1, "state_original", CopyState(Column(d1, "state")))
        d3 == Assign(d2, "state", NewState(Column(d2, "state")))
        d4 == Assign(d3, "district", NewDistrict(Column(d3, "district")))
        d5 == Assign(d4, "date", NewDate(Column(d4, "date"), unit))
        d6 == Assign(d5, "pincode", NewPincode(Column(d5, "pincode")))
        d7 == reset_index(sort_values(d6, sort_cols))
    IN  Select(d7, ReorderedColumns(d7.columns))

(* Lines 193-224: the files split_and_save writes, in order, each with the *)
(* rows it gets.                                                          *)
SplitWrites(frame, base, cap) ==
    LET total_rows == Len(frame.rows)
    IN  IF FitsOneFile(total_rows, cap)
        THEN <<[file |-> PartFile(base, 1), part |-> frame]>>
        ELSE [n \in 1..NumParts(total_rows, cap) |->
                 [file |-> PartFile(base, n),
                  part |-> iloc(frame, (n - 1) * cap, Min(n * cap, total_rows))]]

InitPar ==
    /\ inputs \in [Range(DatasetNames) -> MainDirs]
    /\ max_rows \in 1..MaxCap
    /\ workers = [c \in Range(DatasetNames) |->
                     [pc |-> "load", df_dedup |-> EmptyFrame, writes |-> <<>>,
                      files_info |-> <<>>]]
    /\ datasets = DatasetNames
    /\ input_dir = <<>>
    /\ output_base = ""
    /\ run = 1
    /\ all_stats = <<>>
    /\ disk = <<>>
    /\ pc = "parallel"
    /\ df = EmptyFrame
    /\ df_dedup = EmptyFrame
    /\ original_rows = 0
    /\ duplicates_removed = 0
    /\ invalid_count = 0
    /\ num_parts = 0
    /\ i = 0
    /\ files_info = <<>>
    /\ stats = <<>>
    /\ probe = NoProbe
    /\ state_value = NaN
    /\ result = ""
    /\ date_value = NaN
    /\ date_result = NaN

sequential == <<input_dir, output_base, pc, df, df_dedup, counts, split, stats, call,
                run, datasets, inputs, all_stats>>

(* Lines 247-300 in the worker of dataset c. *)
ParClean(c) ==
    /\ workers[c].pc = "load"
    /\ \E csv_files \in Listings(DOMAIN inputs[c]), unit \in Units :
         LET dfs == [k \in DOMAIN csv_files |-> read_csv(inputs[c][csv_files[k]])]
         IN  IF dfs = <<>>
             THEN workers' = [workers EXCEPT ![c].pc = "raised"]
             ELSE workers' = [workers EXCEPT
                      ![c].pc = "split",
                      ![c].df_dedup = Cleaned(concat(dfs), unit),
                      ![c].writes = SplitWrites(Cleaned(concat(dfs), unit),
                                                OutputBase[c], max_rows)]
    /\ UNCHANGED <<disk, sequential>>

(* Lines 200-201 or 214-216 in the worker of dataset c: its next file. *)
ParWrite(c) ==
    /\ workers[c].pc = "split"
    /\ LET w == Head(workers[c].writes)
       IN  /\ disk' = (w.file :> to_csv(w.part)) @@ disk
           /\ workers' = [workers EXCEPT
                  ![c].files_info = Append(@, FileInfo(w.file, w.part, to_csv(w.part))),
                  ![c].writes = Tail(@),
                  ![c].pc = IF Len(workers[c].writes) = 1 THEN "done" ELSE "split"]
    /\ UNCHANGED sequential

NextPar == \E c \in Range(DatasetNames) : ParClean(c) \/ ParWrite(c)

SpecPar == InitPar /\ [][NextPar]_vars

(***************************************************************************)
(* clean_dataset on one raw file whose rows differ in the text of an       *)
(* impossible date or in the case and spacing of the district only.        *)
(***************************************************************************)
DupRows ==
    {RawRow(Str(date), Str("Goa"), Str(district), Int64(403001), Int64(1)) :
         date \in {"31-02-2025", "32-02-2025"}, district \in {"Panaji", "panaji "}}

InitDup ==
    /\ input_dir \in OneFileDirs(DupRows)
    /\ output_base = OutputBase["BIOMETRIC"]
    /\ disk = <<>>
    /\ pc = "load"
    /\ Locals
    /\ probe = NoProbe
    /\ state_value = NaN
    /\ result = ""
    /\ date_value = NaN
    /\ date_result = NaN
    /\ OneDataset

SpecDup == InitDup /\ [][Next]_vars

(***************************************************************************)
(* clean_dataset on one raw file whose rows carry dates of different days, *)
(* months and years, and dates that do not parse, in different states.     *)
(***************************************************************************)
SortRowsInput ==
    {RawRow(Str(r[1]), Str(r[2]), Str("Panaji"), Int64(403001), Int64(1)) :
         r \in {<<"10-01-2025", "Goa">>, <<"02-02-2025", "Goa">>, <<"31-12-2024", "Goa">>,
                <<"31-02-2025", "Odisha">>, <<"2025-01-01", "Goa">>, <<"32-01-2025", "Goa">>}}

InitSort ==
    /\ input_dir \in OneFileDirs(SortRowsInput)
    /\ output_base = OutputBase["BIOMETRIC"]
    /\ disk = <<>>
    /\ pc = "load"
    /\ Locals
    /\ probe = NoProbe
    /\ state_value = NaN
    /\ result = ""
    /\ date_value = NaN
    /\ date_result = NaN
    /\ OneDataset

SpecSort == InitSort /\ [][Next]_vars

(***************************************************************************)
(* The single-file variant, src/hackathon2/data_cleaning.py, run on the    *)
(* input directory before the split-aware one.                             *)
(***************************************************************************)
(* Line 292 of the single-file variant. *)
output_file == "cleaned_data/biometric_cleaned.csv"

(* Lines 175-246 of the single-file variant: clean_dataset, a statement a   *)
(* line.  Its frames are kept for the comparison with the split-aware run.  *)
CleanSingleFile ==
    /\ pc = "single"
    /\ \E csv_files \in Listings(DOMAIN input_dir), unit \in Units :
         LET dfs == [k \in DOMAIN csv_files |-> read_csv(input_dir[csv_files[k]])]
         IN  IF dfs = <<>>
             THEN /\ pc' = "raised"
                  /\ UNCHANGED <<disk, all_stats, workers>>
             ELSE \E raw \in {concat(dfs)} :
                  \E d1 \in {drop_duplicates(raw)} :
                  \E d2 \in {Assign(d1, "state_original", CopyState(Column(d1, "state")))} :
                  \E d3 \in {Assign(d2, "state",
                                    [k \in DOMAIN d2.rows |->
                                        Str(standardize_state_hackathon2(d2.rows[k].v["state"]))])} :
                  \E d4 \in {Assign(d3, "district", NewDistrict(Column(d3, "district")))} :
                  \E d5 \in {Assign(d4, "date", NewDate(Column(d4, "date"), unit))} :
                  \E d6 \in {Assign(d5, "pincode", NewPincode(Column(d5, "pincode")))} :
                  \E out \in {Select(d6, ReorderedColumns(d6.columns))} :
                      /\ disk' = (output_file :> to_csv(out)) @@ disk
                      /\ all_stats' =
                            <<[dataset |-> "BIOMETRIC",
                               original_rows |-> Len(raw.rows),
                               duplicates_removed |-> Len(raw.rows) - Len(d1.rows),
                               invalid_states |-> CountInvalid(d3),
                               final_rows |-> Len(out.rows),
                               unique_states |-> nunique(out, "state")]>>
                      /\ workers' = ("hackathon2" :> [df |-> raw, df_dedup |-> out])
                      /\ pc' = "load"
    /\ UNCHANGED <<input_dir, output_base, call, run, datasets, inputs,
                   df, df_dedup, counts, split, stats>>

InitBoth ==
    /\ input_dir \in InputDirs
    /\ output_base = OutputBase["BIOMETRIC"]
    /\ disk = <<>>
    /\ pc = "single"
    /\ Locals
    /\ probe = NoProbe
    /\ state_value = NaN
    /\ result = ""
    /\ date_value = NaN
    /\ date_result = NaN
    /\ OneDataset

NextBoth == CleanSingleFile \/ Next

SpecBoth == InitBoth /\ [][NextBoth]_vars

(***************************************************************************)
(* main() with writes of part files that may fail.  to_csv raises OSError, *)
(* which neither split_and_save, clean_dataset nor main catches; the file  *)
(* it was writing is as before, or holds the header and some of the lines. *)
(***************************************************************************)
FailedWrite(name, file) ==
    {disk} \cup {(name :> [header |-> file.header, lines |-> SubSeq(file.lines, 1, n)]) @@ disk :
                    n \in 0..(Len(file.lines) - 1)}

(* A variant of WriteFails that gives up the part and goes on to the next. *)
WriteFails_skips ==
    /\ pc = "parts"
    /\ i < num_parts
    /\ i' = i + 1
    /\ pc' = IF i + 1 < num_parts THEN "parts" ELSE "return"
    /\ UNCHANGED <<io, df, df_dedup, counts, max_rows, num_parts, files_info, stats>>

(* Line 201 or line 216 raises. *)
WriteFails ==
    /\ \/ /\ pc = "split"
          /\ \E cap \in 1..MaxCap :
               /\ max_rows \in {0, cap}
               /\ FitsOneFile(Len(df_dedup.rows), cap)
               /\ max_rows' = cap
          /\ disk' \in FailedWrite(PartFile(output_base, 1), to_csv(df_dedup))
       \/ /\ pc = "parts"
          /\ i < num_parts
          /\ disk' \in FailedWrite(PartFile(output_base, i + 1),
                                    to_csv(iloc(df_dedup, i * max_rows,
                                                Min((i + 1) * max_rows, Len(df_dedup.rows)))))
          /\ UNCHANGED max_rows
    /\ pc' = "raised"
    /\ UNCHANGED <<input_dir, output_base, call, program, df, df_dedup, counts,
                   num_parts, i, files_info, stats>>

NextIO == NextMain \/ WriteFails

SpecIO == InitMain /\ [][NextIO]_vars

(***************************************************************************)
(* Properties.                                                             *)
(***************************************************************************)
(* The part files in the output directory, counted, and the n-th of them. *)
NumShards == Cardinality(DOMAIN disk)

Shard(n) == disk[PartFile(output_base, n)]

ShardNames == {PartFile(output_base, n) : n \in 1..NumShards}

SplitDone == pc \in {"return", "done"}

Splitting == pc \in {"parts", "return", "done"}

(* The lines a single to_csv of the whole cleaned frame would write. *)
AllLines == to_csv(df_dedup).lines

TotalRows == Len(df_dedup.rows)

(* C1: once split_and_save has returned, the lines of part1, part2, ... put *)
(* end to end are the lines of the whole frame, in the same order and with  *)
(* the same columns: nothing lost, repeated or moved.                       *)
C1_RoundTrip ==
    SplitDone =>
        /\ DOMAIN disk = ShardNames
        /\ Flatten([n \in 1..NumShards |-> Shard(n).lines]) = AllLines
        /\ \A n \in 1..NumShards : Shard(n).header = df_dedup.columns

C1_Witness ==
    /\ pc = "done"
    /\ NumShards >= 2
    /\ Len(Shard(NumShards).lines) < max_rows
    /\ \E j, k \in 1..TotalRows : AllLines[j] # AllLines[k]

(* C2: while and after the parts are written, the files are named part1,    *)
(* part2, ... without a gap; part n holds at most max_rows rows and they    *)
(* are the rows from (n-1)*max_rows + 1 on, in order; every part before the *)
(* newest holds exactly max_rows rows; a frame with rows gives no empty     *)
(* part; files_info records each part's name and row count.                 *)
C2_Shards ==
    Splitting =>
        /\ DOMAIN disk = ShardNames
        /\ Len(files_info) = NumShards
        /\ \A n \in 1..NumShards :
             LET rows == Len(Shard(n).lines)
                 first == (n - 1) * max_rows
             IN  /\ rows <= max_rows
                 /\ first + rows <= TotalRows
                 /\ Shard(n).lines = SubSeq(AllLines, first + 1, first + rows)
                 /\ n < NumShards => rows = max_rows
                 /\ TotalRows > 0 => rows > 0
                 /\ files_info[n].file = PartFile(output_base, n)
                 /\ files_info[n].rows = rows
        /\ SplitDone /\ NumShards > 0 =>
             (NumShards - 1) * max_rows + Len(Shard(NumShards).lines) = TotalRows

C2_Witness ==
    /\ pc = "parts"
    /\ NumShards = 2
    /\ num_parts = 3
    /\ max_rows = 1

(* The least q with q * d >= n. *)
CeilDiv(n, d) == CHOOSE q \in 0..n : q * d >= n /\ \A r \in 0..n : r * d >= n => q <= r

(* C3: split_and_save leaves exactly one file, part1, when the frame has at *)
(* most max_rows rows (also when it has none), and ceil(rows / max_rows)    *)
(* files otherwise; max_rows + 1 rows give two files of max_rows and 1.     *)
C3_ShardCount ==
    SplitDone =>
        /\ Len(files_info) = NumShards
        /\ TotalRows <= max_rows =>
             /\ DOMAIN disk = {PartFile(output_base, 1)}
             /\ files_info[1].rows = TotalRows
        /\ TotalRows > max_rows =>
             /\ NumShards = CeilDiv(TotalRows, max_rows)
             /\ DOMAIN disk = ShardNames
        /\ TotalRows = max_rows + 1 =>
             /\ NumShards = 2
             /\ <<files_info[1].rows, files_info[2].rows>> = <<max_rows, 1>>

C3_Witness ==
    /\ pc = "done"
    /\ max_rows = 2
    /\ TotalRows = 3
    /\ NumShards = 2

(* The official names: the values of the mapping table. *)
OfficialNames == Range(STATE_MAPPING)

CanonicalNames == OfficialNames \cup {"INVALID"}

AfterState ==
    {"district", "date", "pincode", "sort", "reset_index", "reorder", "split",
     "parts", "return", "done"}

(* The position of a column in a written file. *)
ColumnOf(file, name) == CHOOSE j \in DOMAIN file.header : file.header[j] = name

(* C4: there are 36 official names; from the standardization step on every  *)
(* row of the frame, and every line of every file written, has a state that *)
(* is one of them or INVALID.                                               *)
C4_CanonicalState ==
    /\ Cardinality(OfficialNames) = 36
    /\ "INVALID" \notin OfficialNames
    /\ pc \in AfterState =>
         \A k \in DOMAIN df_dedup.rows :
            /\ df_dedup.rows[k].v["state"].t = "str"
            /\ df_dedup.rows[k].v["state"].s \in CanonicalNames
    /\ \A name \in DOMAIN disk : \A k \in DOMAIN disk[name].lines :
         disk[name].lines[k][ColumnOf(disk[name], "state")] \in CanonicalNames

C4_Witness ==
    /\ pc = "done"
    /\ \E name \in DOMAIN disk : \E k \in DOMAIN disk[name].lines :
         /\ disk[name].lines[k][ColumnOf(disk[name], "state")] = "INVALID"
         /\ disk[name].lines[k][ColumnOf(disk[name], "state_original")] = " Bombay"
    /\ \E name \in DOMAIN disk : \E k \in DOMAIN disk[name].lines :
         disk[name].lines[k][ColumnOf(disk[name], "state")] = "West Bengal"

(* The raw rows are known by their labels until reset_index renumbers them. *)
Labelled == {"district", "date", "pincode", "sort", "reset_index"}

LastOf(seq) == seq[Len(seq)]

C5_Audit ==
    /\ pc \in AfterState =>
         \A k \in DOMAIN df_dedup.rows :
            LET row == df_dedup.rows[k]
            IN  /\ row.v["state"] = Str(standardize_state(row.v["state_original"]))
                /\ pc \in Labelled =>
                     row.v["state_original"] = df.rows[row.index + 1].v["state"]
    /\ pc \in {"split", "parts", "return", "done"} =>
         LastOf(df_dedup.columns) = "state_original"
    /\ \A n \in 1..NumShards :
         /\ PartFile(output_base, n) \in DOMAIN disk
         /\ LastOf(Shard(n).header) = "state_original"
         /\ \A k \in DOMAIN Shard(n).lines :
              LastOf(Shard(n).lines[k]) =
                  CsvField(df_dedup.rows[(n - 1) * max_rows + k].v["state_original"])

OriginalByLabel(frame) ==
    {<<frame.rows[k].index, frame.rows[k].v["state_original"]>> : k \in DOMAIN frame.rows}

OriginalByPosition(frame) ==
    [k \in DOMAIN frame.rows |-> frame.rows[k].v["state_original"]]

C5_Kept ==
    pc \in AfterState =>
        /\ Len(df_dedup'.rows) = Len(df_dedup.rows)
        /\ IF pc = "sort"
           THEN OriginalByLabel(df_dedup') = OriginalByLabel(df_dedup)
           ELSE OriginalByPosition(df_dedup') = OriginalByPosition(df_dedup)

(* C5: state_original of a row is the raw state cell of the raw row with    *)
(* the same label, untouched; state is standardize_state of it; no step     *)
(* after the standardization changes state_original of any row or drops a   *)
(* row; it is the last column of the frame that is split and of every file, *)
(* where each line ends with the state_original of its row.                 *)
C5_StateOriginal == [](C5_Audit) /\ [][C5_Kept]_vars

C5_Witness ==
    /\ pc = "done"
    /\ NumShards = 2
    /\ max_rows = 2
    /\ TotalRows = 3
    /\ LastOf(Shard(1).lines[1]) = " Bombay"
    /\ LastOf(Shard(1).lines[2]) = "West  Bengal"
    /\ LastOf(Shard(2).lines[1]) = ""

(* C6: a key of the mapping table, re-cased and padded with whitespace in   *)
(* any of the ways tried, gives the official name the table has for it.     *)
C6_KnownVariants ==
    (pc = "returned" /\ ~probe.null /\ probe.base \in DOMAIN STATE_MAPPING) =>
        result = STATE_MAPPING[probe.base]

C6_Witness ==
    /\ pc = "returned"
    /\ probe.base = "west  bengal"
    /\ state_value = Str("  WeSt  BeNgAl \t ")
    /\ result = "West Bengal"

(* C7: a missing value, a text of the exclusion set and a text of neither   *)
(* table, however re-cased and padded, all give INVALID.                    *)
C7_Invalid ==
    pc = "returned" =>
        /\ probe.null => result = "INVALID"
        /\ ~probe.null /\ probe.base \in INVALID_STATES => result = "INVALID"
        /\ ~probe.null /\ probe.base \notin DOMAIN STATE_MAPPING => result = "INVALID"

C7_Witness ==
    /\ pc = "returned"
    /\ probe.base = "tamil  nadu"
    /\ state_value = Str(" Tamil  Nadu")
    /\ result = "INVALID"

(* C8: removing duplicates from the deduplicated frame gives it back whole.  *)
C8_DedupIdempotent ==
    pc = "state" => drop_duplicates(df_dedup) = df_dedup

C8_Witness ==
    /\ pc = "state"
    /\ duplicates_removed = 2

(* The positions of df whose row equals no earlier row. *)
FirstOccurrences ==
    {k \in DOMAIN df.rows : \A j \in 1..(k - 1) : df.rows[j].v # df.rows[k].v}

(* C9: the deduplicated frame holds exactly the first occurrences, each as  *)
(* it was, in their original order; it is no longer than the input and      *)
(* duplicates_removed is the difference.                                    *)
C9_FirstOccurrences ==
    pc = "state" =>
        /\ {df_dedup.rows[n].index + 1 : n \in DOMAIN df_dedup.rows} = FirstOccurrences
        /\ \A n \in DOMAIN df_dedup.rows :
             df_dedup.rows[n] = df.rows[df_dedup.rows[n].index + 1]
        /\ \A m, n \in DOMAIN df_dedup.rows :
             m < n => df_dedup.rows[m].index < df_dedup.rows[n].index
        /\ Len(df_dedup.rows) <= Len(df.rows)
        /\ original_rows = Len(df.rows)
        /\ duplicates_removed = Len(df.rows) - Len(df_dedup.rows)

C9_Witness ==
    /\ pc = "state"
    /\ Len(df.rows) = 3
    /\ df.rows[1].v = df.rows[3].v
    /\ df.rows[1].v # df.rows[2].v
    /\ duplicates_removed = 1

(* Order of two sort keys, cell by cell, NaN last. *)
SortKey(row) == [c \in DOMAIN sort_cols |-> row.v[sort_cols[c]]]

RECURSIVE KeyBefore(_, _)
KeyBefore(k1, k2) ==
    IF k1 = <<>> THEN FALSE
    ELSE IF Head(k1) = Head(k2) THEN KeyBefore(Tail(k1), Tail(k2))
    ELSE IF isna(Head(k1)) THEN FALSE
    ELSE IF isna(Head(k2)) THEN TRUE
    ELSE StrLess(Head(k1).s, Head(k2).s)

PositionOf(rows, label) == CHOOSE k \in DOMAIN rows : rows[k].index = label

C10_Sorted ==
    pc = "sort" =>
        LET before == df_dedup.rows
            after == df_dedup'.rows
        IN  /\ Len(after) = Len(before)
            /\ Range(after) = Range(before)
            /\ \A k \in 1..(Len(after) - 1) :
                 ~KeyBefore(SortKey(after[k + 1]), SortKey(after[k]))
            /\ \A m, n \in DOMAIN after :
                 (m < n /\ SortKey(after[m]) = SortKey(after[n])) =>
                     PositionOf(before, after[m].index) < PositionOf(before, after[n].index)

(* C10: the sort step leaves the rows in non-decreasing order of (date,     *)
(* state, district), a missing date or district after every text; the rows  *)
(* after are the rows before; rows with the same key keep their order.      *)
C10_StableSort == [][C10_Sorted]_vars

C10_Witness ==
    /\ pc = "reset_index"
    /\ Len(df_dedup.rows) = 3
    /\ SortKey(df_dedup.rows[2]) = SortKey(df_dedup.rows[3])
    /\ df_dedup.rows[1].index = 2
    /\ df_dedup.rows[2].index = 0
    /\ df_dedup.rows[3].index = 1
    /\ df_dedup.rows[2].v # df_dedup.rows[3].v

(***************************************************************************)
(* Pincodes.                                                               *)
(***************************************************************************)
AfterPincode == {"sort", "reset_index", "reorder", "split", "parts", "return", "done"}

(* The pincode of a row of the frame, and of the raw row it came from. *)
PincodeOf(row) == row.v["pincode"].s

RawPincodeText(row) == str(df.rows[row.index + 1].v["pincode"])

AllZeros(s) == \A j \in 1..Len(s) : Char(s, j) = "0"

EndsWith(s, t) == Len(t) <= Len(s) /\ SubSeq(s, Len(s) - Len(t) + 1, Len(s)) = t

Max(a, b) == IF a >= b THEN a ELSE b

(* Every pincode written to a file, whatever the file. *)
WrittenPincodes ==
    UNION {{disk[name].lines[k][ColumnOf(disk[name], "pincode")] :
               k \in DOMAIN disk[name].lines} : name \in DOMAIN disk}

(* C11: from the padding step on, the pincode of every row, and every       *)
(* pincode written to a file, is exactly 6 characters long.                 *)
C11_ExactlySix ==
    /\ pc \in AfterPincode =>
         \A k \in DOMAIN df_dedup.rows : Len(PincodeOf(df_dedup.rows[k])) = 6
    /\ \A p \in WrittenPincodes : Len(p) = 6

(* What the padding step does give: from it on, the pincode of every row,   *)
(* and every pincode written, is a text of at least 6 characters; it has    *)
(* exactly 6 when the text of the raw value (the digits of a number, with   *)
(* ".0" after them when the column has a missing value, "nan" for a missing *)
(* value) has at most 6, and the length of that text when it has more.      *)
PincodeAtLeastSix ==
    /\ pc \in AfterPincode =>
         \A k \in DOMAIN df_dedup.rows :
            /\ df_dedup.rows[k].v["pincode"].t = "str"
            /\ Len(PincodeOf(df_dedup.rows[k])) >= 6
    /\ pc \in {"sort", "reset_index"} =>
         \A k \in DOMAIN df_dedup.rows :
            Len(PincodeOf(df_dedup.rows[k]))
                = Max(6, Len(RawPincodeText(df_dedup.rows[k])))
    /\ \A p \in WrittenPincodes : Len(p) >= 6

PincodeLongReached ==
    /\ pc = "done"
    /\ {"012345", "1234567", "-00012"} \subseteq WrittenPincodes

PincodeMissingReached ==
    /\ pc = "done"
    /\ {"000nan", "600001.0"} \subseteq WrittenPincodes

(* The text of a raw pincode as the input file has it: the digits of a     *)
(* number, nothing for a missing value.                                    *)
RawPincodeField(row) ==
    LET cell == df.rows[row.index + 1].v["pincode"]
    IN  IF isna(cell) THEN "" ELSE IntToStr(cell.n)

(* C12: the pincode of a row is the text of its raw value with zeros put    *)
(* before it and nothing else: as many zeros as bring it to 6 characters,   *)
(* none when it has 6 or more; the raw text is the end of the pincode.      *)
C12_OnlyPrepends ==
    pc \in {"sort", "reset_index"} =>
        \A k \in DOMAIN df_dedup.rows :
           LET text == RawPincodeField(df_dedup.rows[k])
               out == PincodeOf(df_dedup.rows[k])
           IN  /\ Len(out) = Max(6, Len(text))
               /\ EndsWith(out, text)
               /\ AllZeros(SubSeq(out, 1, Len(out) - Len(text)))

(* What the padding step does give, on the text astype(str) makes of the    *)
(* raw value: the pincode is that text when it has 6 characters or more     *)
(* ("600001", and "600001.0" in a column with a missing value; never cut);  *)
(* a shorter text that does not                                             *)
(* begin with a sign gets zeros before it up to 6 characters ("12345" gives *)
(* "012345") and is the end of the pincode; a shorter text that begins with *)
(* "-" gets the zeros after the sign ("-12" gives "-00012").                *)
PincodeZeroFill ==
    pc \in {"sort", "reset_index"} =>
        \A k \in DOMAIN df_dedup.rows :
           LET text == RawPincodeText(df_dedup.rows[k])
               out == PincodeOf(df_dedup.rows[k])
               digits == IF Head(text) = "-" THEN Tail(text) ELSE text
               sign == IF Head(text) = "-" THEN "-" ELSE ""
           IN  /\ Len(out) = Max(6, Len(text))
               /\ Len(text) >= 6 => out = text
               /\ EndsWith(out, digits)
               /\ SubSeq(out, 1, Len(sign)) = sign
               /\ AllZeros(SubSeq(out, Len(sign) + 1, Len(out) - Len(digits)))
               /\ text = "12345" => out = "012345"
               /\ text = "600001" => out = "600001"

PincodePaddedReached ==
    /\ pc = "sort"
    /\ {PincodeOf(df_dedup.rows[k]) : k \in DOMAIN df_dedup.rows}
           = {"012345", "600001", "1234567"}

(***************************************************************************)
(* Districts.                                                              *)
(***************************************************************************)
AfterDistrict == {"date", "pincode", "sort", "reset_index"}

RawCell(row, col) == df.rows[row.index + 1].v[col]

AllSpace(s) == \A j \in 1..Len(s) : isspace(Char(s, j))

(* out is s without the whitespace at its two ends, letter case aside. *)
IsTrimOf(out, s) ==
    /\ out # "" => ~isspace(Char(out, 1)) /\ ~isspace(Char(out, Len(out)))
    /\ \E j \in 0..(Len(s) - Len(out)) :
         /\ AllSpace(SubSeq(s, 1, j))
         /\ AllSpace(SubSeq(s, j + Len(out) + 1, Len(s)))
         /\ lower(SubSeq(s, j + 1, j + Len(out))) = lower(out)

(* A letter is a capital exactly when no letter stands right before it. *)
IsTitleCased(out) ==
    \A j \in 1..Len(out) :
        LET c == Char(out, j)
            starts == j = 1 \/ ~iscased(Char(out, j - 1))
        IN  iscased(c) => (IF starts THEN UpperChar(c) = c ELSE LowerChar(c) = c)

DistinctRawRows == {df.rows[k].v : k \in DOMAIN df.rows}

AfterDedup == AfterState \cup {"state"}

(* C14: from the removal of duplicates to the end the frame has one row for *)
(* each distinct raw row: as many rows as there are distinct raw rows, and, *)
(* while the rows carry their labels, every distinct raw row is the raw row *)
(* of one of them; no normalization step drops a row, whatever its state or *)
(* its date.                                                                *)
C14_RowPreserving ==
    /\ pc \in AfterDedup =>
         /\ Len(df_dedup.rows) = Cardinality(DistinctRawRows)
         /\ Len(df_dedup.rows) = original_rows - duplicates_removed
    /\ pc \in {"state"} \cup Labelled =>
         {df.rows[df_dedup.rows[k].index + 1].v : k \in DOMAIN df_dedup.rows}
             = DistinctRawRows

C14_Witness ==
    /\ pc = "sort"
    /\ duplicates_removed = 1
    /\ Len(df_dedup.rows) = 2
    /\ \E k \in DOMAIN df_dedup.rows :
         /\ df_dedup.rows[k].v["state"] = Str("INVALID")
         /\ isna(df_dedup.rows[k].v["date"])
         /\ RawCell(df_dedup.rows[k], "date") = Str("31-02-2025")

(***************************************************************************)
(* Dates.                                                                  *)
(***************************************************************************)
(* The days of a month of the calendar. *)
MonthLength(m, y) ==
    CASE m \in {1, 3, 5, 7, 8, 10, 12} -> 31
      [] m \in {4, 6, 9, 11} -> 30
      [] OTHER -> IF y % 400 = 0 \/ (y % 4 = 0 /\ y % 100 # 0) THEN 29 ELSE 28

RealDate(d, m, y) == m \in 1..12 /\ d \in 1..MonthLength(m, y) /\ y \in 1..9999

TwoDigits(n) == (IF n < 10 THEN "0" ELSE "") \o NatToStr(n)

FourDigits(n) ==
    (IF n < 10 THEN "000" ELSE IF n < 100 THEN "00" ELSE IF n < 1000 THEN "0" ELSE "")
        \o NatToStr(n)

IsoDate(d, m, y) == Str(FourDigits(y) \o "-" \o TwoDigits(m) \o "-" \o TwoDigits(d))

Converted == pc = "converted" /\ ~probe.null

RECURSIVE SumLines(_)
SumLines(infos) ==
    IF infos = <<>> THEN 0
    ELSE Len(disk[Head(infos).file].lines) + SumLines(Tail(infos))

(* C16: when clean_dataset has returned, final_rows, the sum of the rows    *)
(* reported for the files, and the lines in those files all equal the       *)
(* number of distinct raw rows, which is original_rows - duplicates_removed *)
(* with original_rows the number of raw rows.                               *)
C16_Conservation ==
    pc = "done" =>
        /\ stats.original_rows = Len(df.rows)
        /\ stats.final_rows = Cardinality(DistinctRawRows)
        /\ stats.final_rows = stats.original_rows - stats.duplicates_removed
        /\ SumRows(stats.files_info) = stats.final_rows
        /\ SumLines(stats.files_info) = stats.final_rows

C16_Witness ==
    /\ pc = "done"
    /\ stats.original_rows = 3
    /\ stats.duplicates_removed = 1
    /\ Len(stats.files_info) = 2

(***************************************************************************)
(* No input file.                                                          *)
(***************************************************************************)
(* C17: with no file in the input directory clean_dataset raises at the     *)
(* concatenation and goes no further: no file is written, no statistics are *)
(* returned; it raises in no other case.                                    *)
C17_NoInputFiles ==
    /\ DOMAIN input_dir = {} =>
         /\ pc \in {"load", "raised"}
         /\ disk = <<>>
         /\ stats = <<>>
         /\ files_info = <<>>
    /\ pc = "raised" => DOMAIN input_dir = {}

C17_Witness ==
    /\ pc = "raised"
    /\ DOMAIN input_dir = {}
    /\ DOMAIN disk = {}

(***************************************************************************)
(* Runs after the first.                                                   *)
(***************************************************************************)
(* C18: when a run has completed, the part files in the output directory    *)
(* are the files that run wrote, and no other.                              *)
C18_LatestShardsOnly ==
    pc = "done" =>
        DOMAIN disk = {stats.files_info[k].file : k \in DOMAIN stats.files_info}

(* What does hold: the files the latest run wrote hold its rows; a file of  *)
(* an earlier run with a higher part number than the latest run reached is  *)
(* still there.                                                             *)
LatestShardsWritten ==
    pc = "done" =>
        /\ {stats.files_info[k].file : k \in DOMAIN stats.files_info} \subseteq DOMAIN disk
        /\ Flatten([k \in DOMAIN stats.files_info |-> disk[stats.files_info[k].file].lines])
               = AllLines

StaleShardReached ==
    /\ pc = "done"
    /\ run = 2
    /\ Len(stats.files_info) = 1
    /\ PartFile(output_base, 2) \in DOMAIN disk

(***************************************************************************)
(* The three datasets in one run.                                          *)
(***************************************************************************)
(* The part files the statistics of a dataset name. *)
FilesOf(s) == {s.files_info[k].file : k \in DOMAIN s.files_info}

(* The datasets whose clean_dataset has returned, in order. *)
Returned == IF pc = "done" THEN Append(all_stats, stats) ELSE all_stats

C19_Sequential ==
    /\ Len(all_stats) + Len(datasets) = 3
    /\ \A k \in DOMAIN Returned :
         /\ Returned[k].dataset = DatasetNames[k]
         /\ DOMAIN inputs[DatasetNames[k]] # {}
         /\ FilesOf(Returned[k]) \subseteq DOMAIN disk
         /\ \A j \in DOMAIN Returned[k].files_info :
              LET info == Returned[k].files_info[j]
              IN  /\ Len(disk[info.file].lines) = info.rows
                  /\ getsize(disk[info.file]) = info.size
         /\ SumRows(Returned[k].files_info) = Returned[k].final_rows
    /\ pc = "raised" =>
         /\ datasets # <<>>
         /\ DOMAIN inputs[Head(datasets)] = {}
         /\ Len(all_stats) = 3 - Len(datasets)
         /\ DOMAIN disk = UNION {FilesOf(all_stats[k]) : k \in DOMAIN all_stats}
    /\ pc \in {"summary", "exit"} =>
         /\ Len(all_stats) = 3
         /\ \A c \in Range(DatasetNames) : DOMAIN inputs[c] # {}
         /\ report_file \in DOMAIN disk
    /\ pc = "exit" => split_summary_file \in DOMAIN disk
    /\ {report_file, split_summary_file} \cap DOMAIN disk # {} => Len(all_stats) = 3

C19_Untouched ==
    \A k \in DOMAIN all_stats : \A name \in FilesOf(all_stats[k]) :
        name \in DOMAIN disk' /\ disk'[name] = disk[name]

(* C19: main cleans BIOMETRIC, DEMOGRAPHIC and ENROLMENT in that order.  A  *)
(* dataset without input files makes the run end with the error raised:     *)
(* the datasets before it have their files, with the rows their statistics  *)
(* name, the failed one and those after it have none, and no report is      *)
(* written.  A run that ends without an error has cleaned all three and     *)
(* written both reports.  No step changes a file of a dataset cleaned       *)
(* before.                                                                  *)
C19_Surfaced == [](C19_Sequential) /\ [][C19_Untouched]_vars

C19_Witness ==
    /\ pc = "raised"
    /\ Len(all_stats) = 2
    /\ Cardinality(DOMAIN disk) = 3
    /\ PartFile(OutputBase["BIOMETRIC"], 2) \in DOMAIN disk
    /\ PartFile(OutputBase["DEMOGRAPHIC"], 1) \in DOMAIN disk

(***************************************************************************)
(* The three datasets side by side.                                        *)
(***************************************************************************)
IsPrefix(s, t) == Len(s) <= Len(t) /\ SubSeq(t, 1, Len(s)) = s

(* The files the worker of a dataset has written. *)
WrittenBy(c) == FilesOf(workers[c])

(* The n-th file of a worker holds the n-th run of max_rows lines of its    *)
(* frame, as when the dataset is cleaned alone.                             *)
AsAlone(c) ==
    LET lines == to_csv(workers[c].df_dedup).lines
        info == workers[c].files_info
    IN  \A n \in DOMAIN info :
           /\ info[n].file = PartFile(OutputBase[c], n)
           /\ info[n].file \in DOMAIN disk
           /\ disk[info[n].file].header = workers[c].df_dedup.columns
           /\ disk[info[n].file].lines
                  = SubSeq(lines, (n - 1) * max_rows + 1, Min(n * max_rows, Len(lines)))

(* C20: the three output bases differ and none begins with another; in any  *)
(* interleaving of the three workers no file is written by two of them, the *)
(* files on disk are those the workers wrote, each file of a worker holds   *)
(* the rows it holds when the dataset is cleaned alone, and a worker that   *)
(* is done has written all the lines of its frame.                          *)
C20_DisjointOutputs ==
    /\ \A c1, c2 \in Range(DatasetNames) :
         c1 # c2 => /\ ~IsPrefix(OutputBase[c1], OutputBase[c2])
                    /\ WrittenBy(c1) \cap WrittenBy(c2) = {}
    /\ DOMAIN disk = UNION {WrittenBy(c) : c \in Range(DatasetNames)}
    /\ \A c \in Range(DatasetNames) :
         /\ AsAlone(c)
         /\ workers[c].pc = "done" =>
              Flatten([n \in DOMAIN workers[c].files_info |->
                          disk[workers[c].files_info[n].file].lines])
                  = to_csv(workers[c].df_dedup).lines

C20_Witness ==
    /\ workers["BIOMETRIC"].pc = "split"
    /\ Len(workers["BIOMETRIC"].files_info) = 1
    /\ workers["DEMOGRAPHIC"].pc = "split"
    /\ Len(workers["DEMOGRAPHIC"].files_info) = 1
    /\ workers["ENROLMENT"].pc = "done"

(***************************************************************************)
(* Statistics.                                                             *)
(***************************************************************************)
(* The lines with state INVALID in the files the statistics name. *)
RECURSIVE InvalidLines(_)
InvalidLines(infos) ==
    IF infos = <<>> THEN 0
    ELSE LET file == disk[Head(infos).file]
         IN  Cardinality({k \in DOMAIN file.lines :
                             file.lines[k][ColumnOf(file, "state")] = "INVALID"})
             + InvalidLines(Tail(infos))

(* C21: when clean_dataset has returned, invalid_states is the number of    *)
(* rows of the cleaned frame, and of lines of the files written, whose      *)
(* state is INVALID; those rows are in the output, so invalid_states is at  *)
(* most final_rows.                                                         *)
C21_InvalidCount ==
    pc = "done" =>
        /\ stats.invalid_states
               = Cardinality({k \in DOMAIN df_dedup.rows :
                                 df_dedup.rows[k].v["state"] = Str("INVALID")})
        /\ stats.invalid_states = InvalidLines(stats.files_info)
        /\ stats.invalid_states <= stats.final_rows

C21_Witness ==
    /\ pc = "done"
    /\ stats.invalid_states = 2
    /\ stats.final_rows = 3
    /\ Len(stats.files_info) = 2

(***************************************************************************)
(* Duplicates and spellings.                                               *)
(***************************************************************************)
(* Two raw rows that differ in the state only, in two spellings of one     *)
(* official name.                                                          *)
SpellingPair(a, b) ==
    /\ a["state"] # b["state"]
    /\ [a EXCEPT !["state"] = NaN] = [b EXCEPT !["state"] = NaN]
    /\ standardize_state(a["state"]) = standardize_state(b["state"])
    /\ standardize_state(a["state"]) # "INVALID"

(* C22: the rows removed as duplicates are counted on the raw rows; from    *)
(* the standardization on, for two raw rows that differ only in the         *)
(* spelling of one state the frame has two rows with those two spellings in *)
(* state_original and the same state.                                       *)
C22_DedupOnRaw ==
    /\ pc \in AfterDedup =>
         duplicates_removed = original_rows - Cardinality(DistinctRawRows)
    /\ pc \in AfterState =>
         \A a, b \in DistinctRawRows :
            SpellingPair(a, b) =>
               \E j, k \in DOMAIN df_dedup.rows :
                  /\ j # k
                  /\ df_dedup.rows[j].v["state_original"] = a["state"]
                  /\ df_dedup.rows[k].v["state_original"] = b["state"]
                  /\ df_dedup.rows[j].v["state"] = df_dedup.rows[k].v["state"]
                  /\ df_dedup.rows[j].v["bio_age_5_17"] = a["bio_age_5_17"]
                  /\ df_dedup.rows[k].v["bio_age_5_17"] = b["bio_age_5_17"]

C22_Witness ==
    /\ pc = "done"
    /\ stats.duplicates_removed = 0
    /\ stats.final_rows = 2
    /\ {df_dedup.rows[k].v["state_original"] : k \in 1..2} = {Str("Orissa"), Str("Odisha")}
    /\ {df_dedup.rows[k].v["state"] : k \in 1..2} = {Str("Odisha")}

(***************************************************************************)
(* Duplicates in the output.                                               *)
(***************************************************************************)
(* C23: from the end of the normalization on, no two rows of the cleaned    *)
(* frame are equal in every column, and when clean_dataset has returned no  *)
(* two lines of the files written are equal.                                *)
C23_NoExactDuplicates ==
    /\ pc \in AfterPincode =>
         \A j, k \in DOMAIN df_dedup.rows :
            j # k => df_dedup.rows[j].v # df_dedup.rows[k].v
    /\ pc = "done" => \A j, k \in DOMAIN AllLines : j # k => AllLines[j] # AllLines[k]

(* What does hold: the rows are distinct right after the duplicates are     *)
(* removed, before any column is normalized.                                *)
DistinctBeforeNormalization ==
    pc = "state" =>
        \A j, k \in DOMAIN df_dedup.rows :
           j # k => [c \in Range(RawColumns) |-> df_dedup.rows[j].v[c]]
                        # [c \in Range(RawColumns) |-> df_dedup.rows[k].v[c]]

(***************************************************************************)
(* A write that fails.                                                     *)
(***************************************************************************)
(* The run ended with the error of a write: the dataset in hand had files. *)
WriteRaised == pc = "raised" /\ DOMAIN input_dir # {}

C24_AtFailure ==
    WriteRaised =>
        /\ stats = <<>>
        /\ Len(all_stats) = 3 - Len(datasets)
        /\ {report_file, split_summary_file} \cap DOMAIN disk = {}
        /\ \A n \in DOMAIN files_info :
             /\ files_info[n].file = PartFile(output_base, n)
             /\ PartFile(output_base, n) \in DOMAIN disk
             /\ disk[PartFile(output_base, n)].header = df_dedup.columns
             /\ disk[PartFile(output_base, n)].lines
                    = SubSeq(AllLines, (n - 1) * max_rows + 1, Min(n * max_rows, TotalRows))
        /\ \A n \in (Len(files_info) + 2)..(TotalRows + 1) :
             PartFile(output_base, n) \notin DOMAIN disk
        /\ \A k \in DOMAIN all_stats : FilesOf(all_stats[k]) \subseteq DOMAIN disk

(* A step of split_and_save that adds no file to its result is the entry   *)
(* to the loop or ends the run with the error; no step follows the error.   *)
C24_NoRecovery ==
    /\ pc # "raised"
    /\ (pc \in {"split", "parts"} /\ Len(files_info') = Len(files_info)) =>
          \/ pc = "split" /\ pc' = "parts"
          \/ pc' = "raised" /\ stats' = <<>> /\ all_stats' = all_stats

(* C24: when the write of part k fails, the run ends there with the error:  *)
(* parts 1..k-1 are on disk with their rows, no part after k is written, no *)
(* statistics are returned for the dataset, the files of the datasets       *)
(* before stay, neither report is written, and no step follows.             *)
C24_WriteFailure == [](C24_AtFailure) /\ [][C24_NoRecovery]_vars

C24_Witness ==
    /\ WriteRaised
    /\ Head(datasets) = "DEMOGRAPHIC"
    /\ Len(files_info) = 1
    /\ TotalRows = 2
    /\ PartFile(output_base, 2) \in DOMAIN disk
    /\ disk[PartFile(output_base, 2)].lines = <<>>

(***************************************************************************)
(* The reports.                                                            *)
(***************************************************************************)
C25_Figures ==
    /\ report_file \in DOMAIN disk =>
         \A k \in DOMAIN all_stats :
            LET said == disk[report_file].sections[k]
            IN  \A key \in DOMAIN said : said[key] = all_stats[k][key]
    /\ split_summary_file \in DOMAIN disk =>
         \A k \in DOMAIN all_stats :
            LET said == disk[split_summary_file].sections[k]
            IN  /\ said.dataset = all_stats[k].dataset
                /\ said.count = Len(all_stats[k].files_info)
                /\ said.total_rows = all_stats[k].final_rows
                /\ \A j \in DOMAIN said.files :
                     said.files[j].rows = all_stats[k].files_info[j].rows

C25_Unchanged ==
    /\ pc = "summary" => all_stats' = all_stats
    /\ pc = "done" /\ pc' = "summary" => all_stats' = Append(all_stats, stats)

(* C25: the two reports say of each dataset what its statistics say; the    *)
(* total of the summary, the sum of the rows of the files, is final_rows;   *)
(* writing the reports changes no statistics.                               *)
C25_ReportsReadOnly == [](C25_Figures) /\ [][C25_Unchanged]_vars

C25_Witness ==
    /\ pc = "exit"
    /\ disk[split_summary_file].sections[2].count = 2
    /\ disk[split_summary_file].sections[2].total_rows = 2
    /\ all_stats[2].original_rows = 2
    /\ all_stats[1].duplicates_removed = 1
    /\ disk[report_file].sections[1].final_rows = 1

(***************************************************************************)
(* C26                                                                     *)
(***************************************************************************)
(* The day number of a raw date text written DD-MM-YYYY. *)
DayNumber(text) ==
    DigitsToNat(SubSeq(text, 7, 10)) * 10000 + DigitsToNat(SubSeq(text, 4, 5)) * 100
        + DigitsToNat(SubSeq(text, 1, 2))

Sorted == pc = "reset_index"

HasDate(row) == ~isna(row.v["date"])

(* Among rows with a date, the order of the date texts is the order of the  *)
(* days they name, and the frame is in that order.                          *)
ChronologicalDates ==
    \A j, k \in DOMAIN df_dedup.rows :
        LET a == df_dedup.rows[j]
            b == df_dedup.rows[k]
        IN  HasDate(a) /\ HasDate(b) =>
              /\ StrLess(a.v["date"].s, b.v["date"].s) <=>
                     DayNumber(RawCell(a, "date").s) < DayNumber(RawCell(b, "date").s)
              /\ j < k => ~StrLess(b.v["date"].s, a.v["date"].s)

(* No row without a date comes before a row with one. *)
SentinelLast ==
    \A j, k \in DOMAIN df_dedup.rows :
        j < k /\ ~HasDate(df_dedup.rows[j]) => ~HasDate(df_dedup.rows[k])

(* C26 as stated: in the sorted frame the order of the date texts is the    *)
(* chronological order, rows without a date come last, and those rows are   *)
(* in their input order.                                                    *)
C26_SentinelInputOrder ==
    Sorted =>
        /\ ChronologicalDates
        /\ SentinelLast
        /\ \A j, k \in DOMAIN df_dedup.rows :
              j < k /\ ~HasDate(df_dedup.rows[j]) =>
                 df_dedup.rows[j].index < df_dedup.rows[k].index

(* C26: in the sorted frame the order of the date texts is the              *)
(* chronological order, rows without a date come last, and those rows are   *)
(* ordered by state and district, in input order only where both are equal. *)
C26_SortedDates ==
    Sorted =>
        /\ ChronologicalDates
        /\ SentinelLast
        /\ \A j, k \in DOMAIN df_dedup.rows :
              LET a == df_dedup.rows[j]
                  b == df_dedup.rows[k]
              IN  j < k /\ ~HasDate(a) =>
                     \/ KeyBefore(SortKey(a), SortKey(b))
                     \/ SortKey(a) = SortKey(b) /\ a.index < b.index

(* A sorted frame of three rows: a dateless row of Goa read after a         *)
(* dateless row of Odisha and placed before it, both after a row whose date *)
(* is later in text order as DD-MM-YYYY would have it.                      *)
C26_Witness ==
    /\ Sorted
    /\ Len(df_dedup.rows) = 3
    /\ HasDate(df_dedup.rows[1])
    /\ ~HasDate(df_dedup.rows[2]) /\ df_dedup.rows[2].v["state"] = Str("Goa")
    /\ ~HasDate(df_dedup.rows[3]) /\ df_dedup.rows[3].v["state"] = Str("Odisha")
    /\ df_dedup.rows[3].index < df_dedup.rows[2].index

(* A sorted frame whose first row was read last: its day is earlier, its    *)
(* raw text later.                                                          *)
SortedByDayReached ==
    /\ Sorted
    /\ Len(df_dedup.rows) = 3
    /\ \A k \in 1..3 : HasDate(df_dedup.rows[k])
    /\ df_dedup.rows[1].index = 2
    /\ RawCell(df_dedup.rows[1], "date") = Str("31-12-2024")
    /\ RawCell(df_dedup.rows[3], "date") = Str("02-02-2025")

(***************************************************************************)
(* C27                                                                     *)
(***************************************************************************)
(* The cleaned frame of the input directory when glob lists its files in   *)
(* the order q.                                                            *)
CleanedInOrder(q, unit) ==
    Cleaned(concat([k \in DOMAIN q |-> read_csv(input_dir[q[k]])]), unit)

(* The frame and the files of a finished run are those of one listing. *)
CleanedAsListed ==
    pc = "done" =>
        \E q \in Listings(DOMAIN input_dir), unit \in Units :
            /\ CleanedInOrder(q, unit) = df_dedup
            /\ Flatten([n \in 1..NumShards |-> Shard(n).lines])
                   = to_csv(CleanedInOrder(q, unit)).lines

(* C27 as stated: the frame and the files of a finished run are those of    *)
(* every order the input files may be listed in.                            *)
C27_ListingIndependent ==
    pc = "done" =>
        \A q \in Listings(DOMAIN input_dir) :
            \E unit \in Units :
                /\ CleanedInOrder(q, unit) = df_dedup
                /\ Flatten([n \in 1..NumShards |-> Shard(n).lines])
                       = to_csv(CleanedInOrder(q, unit)).lines

(***************************************************************************)
(* C28                                                                     *)
(***************************************************************************)
(* C28: standardize_state applied to its own result gives that result back: *)
(* each of the 36 official names maps to itself and INVALID to INVALID.     *)
C28_Idempotent ==
    /\ pc = "returned" =>
          /\ result \in CanonicalNames
          /\ standardize_state(Str(result)) = result
    /\ \A name \in OfficialNames : standardize_state(Str(name)) = name
    /\ standardize_state(Str("INVALID")) = "INVALID"

(* A call on a deprecated spelling in odd casing with padding, whose result *)
(* is an official name different from the text given.                       *)
C28_Witness ==
    /\ pc = "returned"
    /\ ~probe.null
    /\ probe.base = "orissa"
    /\ probe.casing = "odd"
    /\ probe.padding = <<"  ", " \t ">>
    /\ result = "Odisha"
    /\ state_value # Str(result)

(***************************************************************************)
(* C29                                                                     *)
(***************************************************************************)
(* The texts in the state column of the files written. *)
WrittenStates ==
    UNION {{disk[f].lines[k][ColumnOf(disk[f], "state")] : k \in DOMAIN disk[f].lines} :
               f \in DOMAIN disk}

(* C29: unique_states is the number of distinct values of the state column  *)
(* written, INVALID counting as one value: at most 37, and the number of    *)
(* official names present plus one exactly when invalid_states is positive. *)
C29_UniqueStates ==
    pc = "done" =>
        /\ stats.unique_states = Cardinality(WrittenStates)
        /\ stats.unique_states <= 37
        /\ WrittenStates \subseteq CanonicalNames
        /\ stats.invalid_states > 0 =>
              stats.unique_states = Cardinality(WrittenStates \cap OfficialNames) + 1
        /\ stats.invalid_states = 0 =>
              stats.unique_states = Cardinality(WrittenStates \cap OfficialNames)

(* A run that wrote rows of two official names and an invalid one. *)
C29_Witness ==
    /\ pc = "done"
    /\ stats.invalid_states = 1
    /\ stats.unique_states = 3
    /\ WrittenStates = {"West Bengal", "Odisha", "INVALID"}

(***************************************************************************)
(* C30                                                                     *)
(***************************************************************************)
(* The lines of the part files of the finished split-aware run, in order. *)
ShardLines == Flatten([n \in DOMAIN stats.files_info |-> disk[stats.files_info[n].file].lines])

(* The two functions agree on every text of the input family and on the     *)
(* missing value.                                                           *)
SameFunction ==
    /\ standardize_state_hackathon2(NaN) = standardize_state(NaN)
    /\ \A base \in BaseTexts, casing \in Casings, padding \in Paddings :
          standardize_state_hackathon2(Str(Variant(base, casing, padding)))
             = standardize_state(Str(Variant(base, casing, padding)))

(* The two variants return the same five statistics whatever order each    *)
(* read the files in, and use the same standardize_state.                   *)
SameStatistics ==
    /\ pc = "single" /\ input_dir = <<>> => SameFunction
    /\ pc = "done" =>
          /\ all_stats[1].original_rows = stats.original_rows
          /\ all_stats[1].duplicates_removed = stats.duplicates_removed
          /\ all_stats[1].invalid_states = stats.invalid_states
          /\ all_stats[1].final_rows = stats.final_rows
          /\ all_stats[1].unique_states = stats.unique_states
          /\ \A k \in DOMAIN df.rows :
                standardize_state_hackathon2(df.rows[k].v["state"])
                   = standardize_state(df.rows[k].v["state"])

(* The two variants read the files in one order. *)
SameOrder == df = workers["hackathon2"].df

(* The rows of the single file, sorted stably by date, state and district,  *)
(* as to_csv writes them.                                                   *)
SortedSingle == to_csv(sort_values(workers["hackathon2"].df_dedup, sort_cols)).lines

(* When both variants read the files in one order, the lines of the part    *)
(* files put end to end are the stable sort of the rows of the single file. *)
SortedSingleInOrder ==
    /\ pc \notin {"single", "raised"} =>
          disk[output_file] = to_csv(workers["hackathon2"].df_dedup)
    /\ pc = "done" /\ SameOrder =>
          /\ ShardLines = SortedSingle
          /\ \A n \in DOMAIN stats.files_info :
                disk[stats.files_info[n].file].header = disk[output_file].header

(* Both variants have read three distinct rows from two files in one order; *)
(* the part files are two, and their lines are not in the order of the      *)
(* single file.                                                             *)
SortedSingleReached ==
    /\ pc = "done"
    /\ Cardinality(DOMAIN input_dir) = 2
    /\ stats.final_rows = 3
    /\ Len(stats.files_info) = 2
    /\ ShardLines # disk[output_file].lines
    /\ SameOrder

(* C30 as stated: the two variants, run on one input directory, use the     *)
(* same standardize_state and return the same five statistics, and the      *)
(* lines of the part files put end to end are the stable sort by date,      *)
(* state and district of the rows of the single file.                       *)
C30_VariantsAgree ==
    /\ SameStatistics
    /\ pc = "done" => ShardLines = SortedSingle

====
